---------------------------- MODULE Spec2Model ----------------------------
(***************************************************************************)
(* Model of the sequence queue (queue.js), the production pipeline         *)
(* (scheduler.js) and the HTTP handlers that drive them (server.js).       *)
(*                                                                         *)
(* Every `await` of the JavaScript source is a point where another         *)
(* handler may run, so each operation is cut into one action per           *)
(* awaited store or gateway call.  The document store is taken to be       *)
(* reliable: a store call fails only for a logical reason (update of a     *)
(* document that no longer exists).  The messaging gateway is not: a send  *)
(* may fail.                                                               *)
(*                                                                         *)
(* Time is in milliseconds, as in the source (Date#getTime).               *)
(***************************************************************************)
EXTENDS Integers, Sequences, FiniteSets, TLC

(* ------------------------------ bounds -------------------------------- *)

\* documents ever created in sequenceQueue
MaxTasks == 2
\* clock ticks the queue is followed for
MaxTicks == 1
\* the largest batchSize processQueue is called with (the cron passes 100)
MaxBatch == 2
\* minutes in a clock tick: more than the longest delay of a sequence, less
\* than the threshold of the recovery sweep
TickMin == 6

(* ----------------------------- constants ------------------------------ *)

MsPerMin == 60000

\* overlapping invocations of processQueue (two cron ticks)
Workers == {"w1", "w2"}

NoDoc == [exists |-> FALSE]

LeadIds == {"l1", "l2"}

(* A string is a sequence of one-character strings; a template is a        *)
(* sequence of tokens: a literal character or a placeholder {{key}}.       *)
Lit(c) == [key |-> "", lit |-> c]
Key(k) == [key |-> k, lit |-> ""]

(* secuencias collection: doc id -> document.  `active` may be absent.    *)
(* "seqM" is found only through its trigger field (the fallback lookup).  *)
Secuencias ==
  [ NuevoLead |->
      [trigger |-> "NuevoLead", active |-> "absent",
       messages |-> << [type |-> "texto", contenido |-> << Lit("h"), Key("nombre") >>, delay |-> 0],
                       [type |-> "texto", contenido |-> << Lit(" ") >>, delay |-> 5] >>],
    seqM |->
      [trigger |-> "MusicaLead", active |-> "true",
       messages |-> << [type |-> "clip", contenido |-> << Lit("u") >>, delay |-> 5] >>],
    Pausada |->
      [trigger |-> "Pausada", active |-> "false",
       messages |-> << [type |-> "texto", contenido |-> << Lit("h") >>, delay |-> 0] >>],
    Vacia |->
      [trigger |-> "Vacia", active |-> "true", messages |-> << >>],
    LeadSeguimiento |->
      [trigger |-> "LeadSeguimiento", active |-> "true",
       messages |-> << [type |-> "texto", contenido |-> << Lit("s") >>, delay |-> 0] >>],
    LeadWeb1490 |->
      [trigger |-> "LeadWeb1490", active |-> "true",
       messages |-> << [type |-> "texto", contenido |-> << Lit("a") >>, delay |-> 0],
                       [type |-> "texto", contenido |-> << Lit("b") >>, delay |-> 5] >>] ]

\* the trigger names handlers are invoked with ("Falta" has no document)
Triggers == {"NuevoLead", "MusicaLead", "Pausada", "Vacia", "Falta"}

VARIABLES
  now,            \* the wall clock, ms
  whatsappSock,   \* whether the gateway socket has been created
  sequenceQueue,  \* task id -> task document, or NoDoc once deleted
  leads,          \* lead id -> lead document, or NoDoc
  sched,          \* the scheduleSequenceForLead call in flight
  cancel,         \* the cancelSequences call in flight
  pq,             \* worker -> the processQueue invocation in flight
  gateway,        \* task id -> number of gateway sends made for the task
  lastReturn,     \* what the step just taken gave the caller of its function
  musica,         \* job id -> production job document
  sunoTasks,      \* number of generation tasks the audio provider was asked for
  callbacks,      \* number of generation callbacks received so far
  stage,          \* stage function (or overlapping invocation) -> its invocation in flight
  prog,           \* the callers of the queue in flight: the POST /api/music/progress
                  \* request, the processSequences cycle, the inbound-message handlers
  stream,         \* request slot -> the GET /api/music/stream request in flight
  manual,         \* the manual send request (send-full, send-clip) in flight
  hist,           \* history: what the properties need to remember
  call,           \* the function call under test: its inputs and its result
  rival           \* a second cancelSequences call in flight

vars == << now, whatsappSock, sequenceQueue, leads, sched, cancel, pq, gateway,
           lastReturn, musica, sunoTasks, callbacks, stage, prog, stream,
           manual, hist, call,
                  rival >>

\* what the operations of the queue leave alone: the production pipeline's
\* own state, the function call under test and the second cancellation
musicVars == << musica, sunoTasks, callbacks, stage, stream, manual, hist, call,
                  rival >>

TaskIds == DOMAIN sequenceQueue

\* a call of `op` returned `value`
Returned(op, value) ==
  [op |-> op, value |-> value, threw |-> FALSE, full |-> FALSE, fresh |-> FALSE]

\* the step completed no call
NoReturn == Returned("none", 0)

\* a write to sequenceQueue made while a cancelSequences call sits between
\* its read and its commit
Disturbed(c) == IF c.pc = "commit" THEN [c EXCEPT !.alone = FALSE] ELSE c

\* the clock moved or tasks were added since the scan of each invocation
Stale(p) == [w \in DOMAIN p |-> [p[w] EXCEPT !.fresh = FALSE]]

(* ----------------- scheduleSequenceForLead (queue.js) ------------------ *)

\* doc by id, falling back to where('trigger' == trigger).limit(1)
LookupSecuencia(trigger) ==
  IF trigger \in DOMAIN Secuencias THEN Secuencias[trigger]
  ELSE IF \E d \in DOMAIN Secuencias : Secuencias[d].trigger = trigger
       THEN Secuencias[CHOOSE d \in DOMAIN Secuencias : Secuencias[d].trigger = trigger]
       ELSE NoDoc

SeqMessages(trigger) ==
  LET doc == LookupSecuencia(trigger)
  IN IF doc = NoDoc THEN << >>
     ELSE IF doc.active = "false" THEN << >>
     ELSE doc.messages

\* variant: the delay read as seconds
DueAt_Seconds(startMs, delayMin) == startMs + delayMin * 1000

DueAt(startMs, delayMin) == startMs + delayMin * MsPerMin

\* Math.floor(Math.random() * 10)
NumShards == 10
Shards == 0 .. (NumShards - 1)

\* the draws of one call that adds n tasks
Draws(n) == [1 .. n -> Shards]

\* the draws all 0: what the specifications without shard filter explore,
\* since nothing there reads a task's shard
NoDraws(n) == [k \in 1 .. n |-> 0]

NewTask(leadId, trigger, idx, m, startMs, shard) ==
  [exists |-> TRUE, leadId |-> leadId, trigger |-> trigger, idx |-> idx,
   payload |-> [type |-> m.type, contenido |-> m.contenido],
   dueAt |-> DueAt(startMs, m.delay), status |-> "pending", error |-> "",
   shard |-> shard]

\* variant: a write per message, of which only the first is made
NewTasks_FirstOnly(leadId, trigger, startMs, first, draws) ==
  [id \in {first} |->
     NewTask(leadId, trigger, 0, SeqMessages(trigger)[1], startMs, draws[1])]

\* the documents one batch.commit() of scheduleSequenceForLead adds
NewTasks(leadId, trigger, startMs, first, draws) ==
  LET msgs == SeqMessages(trigger)
  IN [id \in first .. (first + Len(msgs) - 1) |->
        NewTask(leadId, trigger, id - first, msgs[id - first + 1], startMs,
                draws[id - first + 1])]

SchedIdle == [pc |-> "idle", leadId |-> "", n |-> 0]

\* lines 35-81: look the definition up, return 0 or commit the batch, the
\* shards of the new tasks being `draws`
scheduleSequenceForLead_Draw(leadId, trigger, draws) ==
  /\ sched.pc = "idle"
  /\ draws \in Draws(Len(SeqMessages(trigger)))
  /\ LET msgs == SeqMessages(trigger)
         first == Cardinality(TaskIds) + 1
     IN IF Len(msgs) = 0
        THEN /\ lastReturn' = Returned("schedule", 0)
             /\ UNCHANGED << sequenceQueue, sched, pq, cancel, gateway >>
        ELSE /\ first + Len(msgs) - 1 <= MaxTasks
             /\ sequenceQueue' =
                  [id \in TaskIds \cup DOMAIN NewTasks(leadId, trigger, now, first, draws) |->
                     IF id \in TaskIds THEN sequenceQueue[id]
                     ELSE NewTasks(leadId, trigger, now, first, draws)[id]]
             /\ sched' = [pc |-> "committed", leadId |-> leadId, n |-> Len(msgs)]
             /\ pq' = Stale(pq)
             /\ cancel' = Disturbed(cancel)
             /\ gateway' = [id \in DOMAIN sequenceQueue' |->
                              IF id \in TaskIds THEN gateway[id] ELSE 0]
             /\ lastReturn' = NoReturn
  /\ UNCHANGED << now, whatsappSock, leads >>
  /\ UNCHANGED musicVars

\* lines 35-81 with the draws fixed (see NoDraws)
scheduleSequenceForLead_Commit(leadId, trigger) ==
  scheduleSequenceForLead_Draw(leadId, trigger, NoDraws(Len(SeqMessages(trigger))))

\* set(..., {merge: true}): creates the document when it is missing
MergeLead(doc, field, value) ==
  IF doc = NoDoc
  THEN [[exists |-> TRUE, telefono |-> << >>, nombre |-> << >>,
          hasActiveSequences |-> FALSE, etiquetas |-> {}, estadoProduccion |-> "",
          nuevoLeadCancelled |-> FALSE]
          EXCEPT ![field] = value]
  ELSE [doc EXCEPT ![field] = value]

\* lines 83-87: the hint on the lead, then return messages.length
scheduleSequenceForLead_Hint ==
  /\ sched.pc = "committed"
  /\ leads' = [leads EXCEPT ![sched.leadId] =
                 MergeLead(leads[sched.leadId], "hasActiveSequences", TRUE)]
  /\ sched' = SchedIdle
  /\ lastReturn' = Returned("schedule", sched.n)
  /\ UNCHANGED << now, whatsappSock, sequenceQueue, cancel, pq, gateway >>
  /\ UNCHANGED musicVars

(* ----------------------- cancelSequences (queue.js) -------------------- *)

CancelIdle == [pc |-> "idle", del |-> {}, alone |-> TRUE]

\* where leadId == l and status == 'pending'
PendingOfLead(leadId) ==
  {id \in TaskIds : /\ sequenceQueue[id] # NoDoc
                     /\ sequenceQueue[id].leadId = leadId
                     /\ sequenceQueue[id].status = "pending"}

\* variant: the trigger filter left out
ToDelete_AnyTrigger(snap, triggers) == snap

\* the documents of the snapshot the loop puts in the delete batch
ToDelete(snap, triggers) ==
  {id \in snap : sequenceQueue[id].trigger \in triggers}

\* lines 93-111: guard, read the lead's pending tasks, build the batch
cancelSequences_Read(leadId, triggers) ==
  /\ cancel.pc = "idle"
  /\ LET del == IF triggers = {} THEN {}
                ELSE ToDelete(PendingOfLead(leadId), triggers)
     IN IF del = {}
        THEN /\ lastReturn' = Returned("cancel", 0)
             /\ UNCHANGED cancel
        ELSE /\ cancel' = [pc |-> "commit", del |-> del, alone |-> TRUE]
             /\ lastReturn' = NoReturn
  /\ UNCHANGED << now, whatsappSock, sequenceQueue, leads, sched, pq, gateway >>
  /\ UNCHANGED musicVars

\* lines 112-113: batch.commit() deletes by reference, then return n
cancelSequences_Commit ==
  /\ cancel.pc = "commit"
  /\ sequenceQueue' = [id \in TaskIds |->
                         IF id \in cancel.del THEN NoDoc ELSE sequenceQueue[id]]
  /\ cancel' = CancelIdle
  /\ lastReturn' = Returned("cancel", Cardinality(cancel.del))
  /\ UNCHANGED << now, whatsappSock, leads, sched, pq, gateway >>
  /\ UNCHANGED musicVars

\* a second call of cancelSequences, made while the first is in flight
RivalIdle == [pc |-> "idle", del |-> {}]

\* lines 93-111 in the second call
rivalCancelSequences_Read(leadId, triggers) ==
  /\ rival.pc = "idle"
  /\ cancel.pc = "commit"
  /\ LET del == IF triggers = {} THEN {}
                ELSE ToDelete(PendingOfLead(leadId), triggers)
     IN IF del = {}
        THEN /\ lastReturn' = Returned("cancel", 0)
             /\ UNCHANGED rival
        ELSE /\ rival' = [pc |-> "commit", del |-> del]
             /\ lastReturn' = NoReturn
  /\ UNCHANGED << now, whatsappSock, sequenceQueue, leads, sched, cancel, pq, gateway >>
  /\ UNCHANGED << musica, sunoTasks, callbacks, stage, stream, manual, hist, call, prog >>

\* lines 112-113 in the second call
rivalCancelSequences_Commit ==
  /\ rival.pc = "commit"
  /\ sequenceQueue' = [id \in TaskIds |->
                         IF id \in rival.del THEN NoDoc ELSE sequenceQueue[id]]
  /\ rival' = RivalIdle
  /\ cancel' = Disturbed(cancel)
  /\ lastReturn' = Returned("cancel", Cardinality(rival.del))
  /\ UNCHANGED << now, whatsappSock, leads, sched, pq, gateway >>
  /\ UNCHANGED << musica, sunoTasks, callbacks, stage, stream, manual, hist, call, prog >>

(* ------------------- template rendering (queue.js) --------------------- *)

IsDigit(c) == c \in {"0", "1", "2", "3", "4", "5", "6", "7", "8", "9"}
IsSpace(c) == c \in {" ", "\t", "\n"}

\* String(x).replace(/\D/g, '')
Digits(str) == SelectSeq(str, IsDigit)

RECURSIVE TrimLeft(_)
TrimLeft(str) ==
  IF str # << >> /\ IsSpace(Head(str)) THEN TrimLeft(Tail(str)) ELSE str

RECURSIVE TrimRight(_)
TrimRight(str) ==
  IF str # << >> /\ IsSpace(str[Len(str)])
  THEN TrimRight(SubSeq(str, 1, Len(str) - 1)) ELSE str

Trim(str) == TrimRight(TrimLeft(str))

RECURSIVE UpToSpace(_)
UpToSpace(str) ==
  IF str = << >> \/ IsSpace(Head(str)) THEN << >>
  ELSE << Head(str) >> \o UpToSpace(Tail(str))

\* String(full).trim().split(/\s+/)[0] || ''
firstName(full) == UpToSpace(Trim(full))

\* the property names a lead object inherits from Object.prototype (two of
\* them), and what such a property renders to in a string
ObjectPrototype == {"constructor", "toString"}
NativeCode == << "f", "(", ")" >>

\* lead[key] ?? '' (and lead.key || ''): a property lookup on the object
\* { id, ...leadSnap.data() }, which finds inherited properties too
LeadField(lead, key) ==
  IF key \in DOMAIN lead THEN lead[key]
  ELSE IF key \in ObjectPrototype THEN NativeCode
  ELSE << >>

RECURSIVE replacePlaceholders(_, _)
replacePlaceholders(template, lead) ==
  IF template = << >> THEN << >>
  ELSE LET tok == Head(template)
           out == IF tok.key = "" THEN << tok.lit >>
                  ELSE IF tok.key = "telefono" THEN Digits(LeadField(lead, "telefono"))
                  ELSE IF tok.key = "nombre" THEN firstName(LeadField(lead, "nombre"))
                  ELSE LeadField(lead, tok.key)
       IN out \o replacePlaceholders(Tail(template), lead)

(* -------------------- gateway (whatsappService.js) --------------------- *)

MaxAttempts == 3
SendResults == {"ok", "Timed Out", "Connection Closed"}
\* what the gateway answers to the successive sock.sendMessage calls of one
\* delivery (answers past the first that is no timeout are never asked for)
GatewayAnswers ==
  {a \in [1 .. MaxAttempts -> SendResults] :
     \A i \in 1 .. (MaxAttempts - 1) : a[i] # "Timed Out" => a[i + 1] = "ok"}

\* the answers the deliveries of the queue are explored with
DeliveryAnswers == {a \in GatewayAnswers : \A i, j \in DOMAIN a : a[i] = a[j]}

NoConnection == "No hay conexion activa con WhatsApp"

\* the outcome of a delivery: sends is the number of messages the gateway
\* accepted, tries the number of sock.sendMessage calls made, via the kind
\* of gateway call chosen ("" when none was)
Sent(n) == [ok |-> TRUE, msg |-> "", sends |-> n, tries |-> n, via |-> ""]
Threw(m) == [ok |-> FALSE, msg |-> m, sends |-> 0, tries |-> 0, via |-> ""]
Tried(r, n) == [r EXCEPT !.tries = n]
Via(r, kind) == [r EXCEPT !.via = kind]

\* sendMessageToLead: one sock.sendMessage({text}), no retry
sendMessageToLead(sock, answers) ==
  Via(IF ~sock THEN Threw(NoConnection)
      ELSE IF answers[1] = "ok" THEN Sent(1) ELSE Tried(Threw(answers[1]), 1),
      "text")

\* variant: every failed attempt but the last retried
RECURSIVE ClipAttempt_RetryAny(_, _)
ClipAttempt_RetryAny(answers, i) ==
  IF answers[i] = "ok" THEN Tried(Sent(1), i)
  ELSE IF i = MaxAttempts THEN Tried(Threw(answers[i]), i)
  ELSE ClipAttempt_RetryAny(answers, i + 1)

\* the retry loop of sendClipMessage, from attempt i on (lines 355-366; the
\* wait of 2000 * i ms before the next attempt takes no part in the outcome)
RECURSIVE ClipAttempt(_, _)
ClipAttempt(answers, i) ==
  IF answers[i] = "ok" THEN Tried(Sent(1), i)
  ELSE IF answers[i] # "Timed Out" \/ i = MaxAttempts THEN Tried(Threw(answers[i]), i)
  ELSE ClipAttempt(answers, i + 1)

\* sendClipMessage: sock.sendMessage({audio: {url}}), timeouts retried
sendClipMessage(sock, answers) ==
  Via(IF ~sock THEN Threw(NoConnection) ELSE ClipAttempt(answers, 1), "audio")

\* variant: the URL sent as a text message
sockSendMessage_AsText(answers) == sendMessageToLead(TRUE, answers)

\* sock.sendMessage(jid, {image|video: {url}}), called on the socket itself
sockSendMessage(answers) ==
  Via(IF answers[1] = "ok" THEN Sent(1) ELSE Tried(Threw(answers[1]), 1), "media")

(* ----------------------- deliverPayload (queue.js) --------------------- *)

\* variant: the lead's existence and phone number not looked at
deliverPayload_AnyLead(lead, payload, sock, answers) ==
  LET type == IF payload.type = "" THEN "texto" ELSE payload.type
      text == Trim(replacePlaceholders(payload.contenido, lead))
  IN IF text = << >> THEN Sent(0)
     ELSE IF type \in {"audio", "clip"} THEN sendClipMessage(sock, answers)
     ELSE IF type \in {"imagen", "video"}
          THEN IF sock THEN sockSendMessage(answers)
               ELSE sendMessageToLead(sock, answers)
     ELSE sendMessageToLead(sock, answers)

\* lines 118-182
deliverPayload(lead, payload, sock, answers) ==
  IF lead = NoDoc THEN Threw("Lead no existe")
  ELSE IF Digits(LeadField(lead, "telefono")) = << >> THEN Threw("Lead sin telefono")
  ELSE LET type == IF payload.type = "" THEN "texto" ELSE payload.type
           text == Trim(replacePlaceholders(payload.contenido, lead))
       IN IF text = << >> THEN Sent(0)
          ELSE IF type \in {"audio", "clip"} THEN sendClipMessage(sock, answers)
          ELSE IF type \in {"imagen", "video"}
               THEN IF sock THEN sockSendMessage(answers)
                    ELSE sendMessageToLead(sock, answers)
          ELSE sendMessageToLead(sock, answers)

(* ------------------------- functions under test ------------------------ *)

NoCall == [fn |-> "", lead |-> NoDoc, payload |-> [type |-> "", contenido |-> << >>],
           sock |-> FALSE, answers |-> << >>, done |-> FALSE, out |-> << >>]

\* everything but the call under test
restVars == << now, whatsappSock, sequenceQueue, leads, sched, cancel, pq, gateway,
               lastReturn, musica, sunoTasks, callbacks, stage, prog, stream,
               manual, hist, rival >>

\* replacePlaceholders(template, lead) is called and returns
replacePlaceholders_Apply ==
  /\ call.fn = "replacePlaceholders" /\ ~call.done
  /\ call' = [call EXCEPT !.done = TRUE,
                          !.out = replacePlaceholders(call.payload.contenido, call.lead)]
  /\ UNCHANGED restVars

\* sendClipMessage(phone, clipUrl) is called and settles
sendClipMessage_Apply ==
  /\ call.fn = "sendClipMessage" /\ ~call.done
  /\ call' = [call EXCEPT !.done = TRUE,
                          !.out = sendClipMessage(call.sock, call.answers)]
  /\ UNCHANGED restVars

\* deliverPayload(leadId, payload) is called and settles
deliverPayload_Apply ==
  /\ call.fn = "deliverPayload" /\ ~call.done
  /\ call' = [call EXCEPT !.done = TRUE,
                          !.out = deliverPayload(call.lead, call.payload,
                                                 call.sock, call.answers)]
  /\ UNCHANGED restVars

(* ------------------------ processQueue (queue.js) ---------------------- *)

\* shard = null: no shard asked for
NoShard == -1

PqIdle == [pc |-> "idle", h |-> << >>, full |-> FALSE, fresh |-> FALSE,
           shard |-> NoShard]

\* variant: the status filter left out
DueTasks_AnyStatus ==
  {id \in TaskIds : /\ sequenceQueue[id] # NoDoc
                     /\ sequenceQueue[id].dueAt <= now}

\* status == 'pending' and dueAt <= now
DueTasks ==
  {id \in TaskIds : /\ sequenceQueue[id] # NoDoc
                     /\ sequenceQueue[id].status = "pending"
                     /\ sequenceQueue[id].dueAt <= now}

\* variant: the limit without the order
Batches_Unordered(due, batchSize) ==
  {b \in SUBSET due :
     Cardinality(b) = IF Cardinality(due) < batchSize THEN Cardinality(due)
                      ELSE batchSize}

\* orderBy('dueAt', 'asc').limit(batchSize): the possible result sets
Batches(due, batchSize) ==
  {b \in SUBSET due :
     /\ Cardinality(b) = IF Cardinality(due) < batchSize THEN Cardinality(due)
                         ELSE batchSize
     /\ \A x \in b, y \in due \ b :
          sequenceQueue[x].dueAt <= sequenceQueue[y].dueAt}

\* variant: the shard filter left out
OfShard_Any(due, shard) == due

\* line 199: if (shard !== null) q = q.where('shard', '==', shard)
OfShard(due, shard) ==
  IF shard = NoShard THEN due
  ELSE {id \in due : sequenceQueue[id].shard = shard}

\* lines 190-205: query, return 0 on an empty snapshot, start one handler per doc
processQueue_Query(w, batchSize, shard) ==
  /\ pq[w].pc = "idle"
  /\ \E snap \in Batches(OfShard(DueTasks, shard), batchSize) :
       IF snap = {}
       THEN /\ lastReturn' = [Returned("processQueue", 0) EXCEPT !.fresh = TRUE]
            /\ UNCHANGED pq
       ELSE /\ pq' = [pq EXCEPT ![w] =
                       [pc |-> "running",
                        h |-> [id \in snap |->
                                 [pc |-> "deliver",
                                  leadId |-> sequenceQueue[id].leadId,
                                  payload |-> sequenceQueue[id].payload,
                                  delivered |-> FALSE, msg |-> ""]],
                        full |-> Cardinality(snap) = batchSize,
                        fresh |-> TRUE, shard |-> shard]]
            /\ lastReturn' = NoReturn
  /\ UNCHANGED << now, whatsappSock, sequenceQueue, leads, sched, cancel, gateway >>
  /\ UNCHANGED musicVars

\* processQueue called on its own
processQueue_ScanShard(w, batchSize, shard) ==
  processQueue_Query(w, batchSize, shard) /\ UNCHANGED prog

\* processQueue({batchSize}): no shard given
processQueue_Scan(w, batchSize) == processQueue_ScanShard(w, batchSize, NoShard)

\* line 207: await deliverPayload(job.leadId, job.payload)
processQueue_Deliver(w, id) ==
  /\ id \in DOMAIN pq[w].h
  /\ pq[w].h[id].pc = "deliver"
  /\ \E answers \in DeliveryAnswers :
       LET r == deliverPayload(leads[pq[w].h[id].leadId], pq[w].h[id].payload,
                               whatsappSock, answers)
       IN /\ pq' = [pq EXCEPT ![w].h[id].pc = IF r.ok THEN "markSent" ELSE "markError",
                               ![w].h[id].delivered = r.ok,
                               ![w].h[id].msg = r.msg]
          /\ gateway' = [gateway EXCEPT ![id] = @ + r.sends]
  /\ lastReturn' = NoReturn
  /\ UNCHANGED << now, whatsappSock, sequenceQueue, leads, sched, cancel >>
  /\ UNCHANGED << musicVars, prog >>

HandlerEnded(end) ==
  [pc |-> end, leadId |-> "", payload |-> << >>, delivered |-> FALSE, msg |-> ""]

\* update({status: 'sent', processedAt})
SentDoc(doc) == [doc EXCEPT !.status = "sent"]

\* variant: the failure's message not recorded
ErrorDoc_NoMessage(doc, msg) == [doc EXCEPT !.status = "error"]

\* update({status: 'error', processedAt, error: String(err.message)})
ErrorDoc(doc, msg) == [doc EXCEPT !.status = "error", !.error = msg]

\* the invocation of worker w once its handler `id` ended with `end`:
\* Promise.all rejects with the first rejection and resolves with the last
\* success; the handlers of a rejected invocation run on
AfterHandler(w, id, end) ==
  LET h2 == [pq[w].h EXCEPT ![id] = HandlerEnded(end)]
      settled == \A x \in DOMAIN h2 : h2[x].pc \in {"done", "rejected"}
  IN IF settled THEN PqIdle
     ELSE [pq[w] EXCEPT !.h = h2,
                        !.pc = IF end = "rejected" THEN "rejected" ELSE pq[w].pc]

\* what processQueue gives its caller when handler `id` of worker w ends
ReturnAfter(w, id, end) ==
  LET h2 == [pq[w].h EXCEPT ![id] = HandlerEnded(end)]
  IN IF pq[w].pc # "running" THEN NoReturn
     ELSE IF end = "rejected"
     THEN [Returned("processQueue", 0) EXCEPT !.threw = TRUE]
     ELSE IF \A x \in DOMAIN h2 : h2[x].pc = "done"
     THEN [Returned("processQueue", Cardinality(DOMAIN h2))
             EXCEPT !.full = pq[w].full, !.fresh = pq[w].fresh]
     ELSE NoReturn

\* lines 208-216: d.ref.update({status: 'sent'}), then the lead's lastMessageAt
processQueue_MarkSent(w, id) ==
  /\ id \in DOMAIN pq[w].h
  /\ pq[w].h[id].pc = "markSent"
  /\ IF sequenceQueue[id] # NoDoc
     THEN /\ sequenceQueue' = [sequenceQueue EXCEPT ![id] = SentDoc(@)]
          /\ pq' = [pq EXCEPT ![w] = AfterHandler(w, id, "done")]
          /\ lastReturn' = ReturnAfter(w, id, "done")
          /\ cancel' = Disturbed(cancel)
     ELSE /\ pq' = [pq EXCEPT ![w].h[id].pc = "markError",
                               ![w].h[id].msg = "NOT_FOUND"]
          /\ lastReturn' = NoReturn
          /\ UNCHANGED << sequenceQueue, cancel >>
  /\ UNCHANGED << now, whatsappSock, leads, sched, gateway >>
  /\ UNCHANGED << musicVars, prog >>

\* lines 218-224: the catch block
processQueue_MarkError(w, id) ==
  /\ id \in DOMAIN pq[w].h
  /\ pq[w].h[id].pc = "markError"
  /\ IF sequenceQueue[id] # NoDoc
     THEN /\ sequenceQueue' = [sequenceQueue EXCEPT ![id] = ErrorDoc(@, pq[w].h[id].msg)]
          /\ pq' = [pq EXCEPT ![w] = AfterHandler(w, id, "done")]
          /\ lastReturn' = ReturnAfter(w, id, "done")
          /\ cancel' = Disturbed(cancel)
     ELSE /\ pq' = [pq EXCEPT ![w] = AfterHandler(w, id, "rejected")]
          /\ lastReturn' = ReturnAfter(w, id, "rejected")
          /\ UNCHANGED << sequenceQueue, cancel >>
  /\ UNCHANGED << now, whatsappSock, leads, sched, gateway >>
  /\ UNCHANGED << musicVars, prog >>

(* ------------------- production pipeline (scheduler.js) ---------------- *)
(* Status names are written without their accents.  Jobs are created        *)
(* outside this code, in 'Sin letra', with their inputs, their lead and     *)
(* their listen token; with leadPhone given and lyrics written by the first *)
(* stage the guard `!leadPhone || !lyrics` of the delivery stage never      *)
(* skips a job.  A snapshot lists its documents by ascending id.            *)

JobIds == {1, 2}

\* generation tasks the audio provider starts, callbacks it makes
MaxSunoTasks == 2
MaxCallbacks == 2
\* clock ticks the pipeline is followed for
MaxMusicTicks == 2

\* cron.schedule('*/5 * * * *', () => retryStuckMusic(10))
RetryThresholdMin == 10

StageIdle == [pc |-> "idle", job |-> 0, todo |-> {}]

\* nothing remembered yet
NoHistory ==
  [cleared |-> {}, cbTask |-> 0, served |-> [j \in JobIds |-> 0],
   sweepNow |-> -1, sweepJobs |-> << >>, sweepAlone |-> FALSE,
   enviados |-> {}]

Min(S) == CHOOSE x \in S : \A y \in S : x <= y

WithStatus(st) == {j \in JobIds : musica[j].status = st}

\* the invocation p once it is through with the first job of its snapshot
NextOf(p) ==
  IF p.todo \ {Min(p.todo)} = {} THEN StageIdle
  ELSE [pc |-> "next", job |-> 0, todo |-> p.todo \ {Min(p.todo)}]

\* what the pipeline's steps leave alone
QueueUnchanged ==
  /\ lastReturn' = NoReturn
  /\ UNCHANGED << now, whatsappSock, sequenceQueue, sched, cancel, pq, gateway, prog >>
  /\ UNCHANGED << stream, manual, call,
                  rival >>

\* generarLetraParaMusica, lines 480-488: where status == 'Sin letra', limit(1)
generarLetraParaMusica_Read(j) ==
  /\ stage.letra.pc = "idle"
  /\ j \in WithStatus("Sin letra")
  /\ stage' = [stage EXCEPT !.letra = [pc |-> "call", job |-> j, todo |-> {}]]
  /\ UNCHANGED << musica, sunoTasks, callbacks >>
  /\ UNCHANGED leads
  /\ QueueUnchanged
  /\ UNCHANGED hist

\* lines 499-515: the provider answers; without lyrics the function throws
generarLetraParaMusica_Write(ok) ==
  /\ stage.letra.pc = "call"
  /\ musica' = IF ok THEN [musica EXCEPT ![stage.letra.job].status = "Sin prompt"]
               ELSE musica
  /\ stage' = [stage EXCEPT !.letra = StageIdle]
  /\ UNCHANGED << sunoTasks, callbacks >>
  /\ UNCHANGED leads
  /\ QueueUnchanged
  /\ UNCHANGED hist

\* generarPromptParaMusica, lines 529-537
generarPromptParaMusica_Read(j) ==
  /\ stage.prompt.pc = "idle"
  /\ j \in WithStatus("Sin prompt")
  /\ stage' = [stage EXCEPT !.prompt = [pc |-> "call", job |-> j, todo |-> {}]]
  /\ UNCHANGED << musica, sunoTasks, callbacks >>
  /\ UNCHANGED leads
  /\ QueueUnchanged
  /\ UNCHANGED hist

\* lines 545-554
generarPromptParaMusica_Write(ok) ==
  /\ stage.prompt.pc = "call"
  /\ musica' = IF ok THEN [musica EXCEPT ![stage.prompt.job].status = "Sin musica"]
               ELSE musica
  /\ stage' = [stage EXCEPT !.prompt = StageIdle]
  /\ UNCHANGED << sunoTasks, callbacks >>
  /\ UNCHANGED leads
  /\ QueueUnchanged
  /\ UNCHANGED hist

\* generarMusicaConSuno, lines 560-568
generarMusicaConSuno_ReadIn(slot, j) ==
  /\ stage[slot].pc = "idle"
  /\ j \in WithStatus("Sin musica")
  /\ stage' = [stage EXCEPT ![slot] = [pc |-> "mark", job |-> j, todo |-> {}]]
  /\ UNCHANGED << musica, sunoTasks, callbacks >>
  /\ UNCHANGED leads
  /\ QueueUnchanged
  /\ UNCHANGED hist

\* lines 570-573: update({status: 'Procesando música', generatedAt})
generarMusicaConSuno_MarkIn(slot) ==
  /\ stage[slot].pc = "mark"
  /\ musica' = [musica EXCEPT ![stage[slot].job].status = "Procesando musica",
                              ![stage[slot].job].generatedAt = now]
  /\ stage' = [stage EXCEPT ![slot].pc = "launch"]
  /\ UNCHANGED << sunoTasks, callbacks >>
  /\ UNCHANGED leads
  /\ QueueUnchanged
  /\ UNCHANGED hist

\* lines 575-591: the provider starts a task and its id is stored, or the
\* call fails and the job is marked
generarMusicaConSuno_StoreIn(slot, ok) ==
  /\ stage[slot].pc = "launch"
  /\ IF ok
     THEN /\ sunoTasks < MaxSunoTasks
          /\ sunoTasks' = sunoTasks + 1
          /\ musica' = [musica EXCEPT ![stage[slot].job].taskId = sunoTasks + 1]
     ELSE /\ musica' = [musica EXCEPT ![stage[slot].job].status = "Error musica",
                                      ![stage[slot].job].errorMsg = "suno"]
          /\ UNCHANGED sunoTasks
  /\ stage' = [stage EXCEPT ![slot] = StageIdle]
  /\ UNCHANGED callbacks
  /\ UNCHANGED leads
  /\ QueueUnchanged
  /\ UNCHANGED hist

\* the invocation of a cron tick, and (suno2) one that overlaps it
generarMusicaConSuno_Read(j) == generarMusicaConSuno_ReadIn("suno", j)
generarMusicaConSuno_Mark == generarMusicaConSuno_MarkIn("suno")
generarMusicaConSuno_Store(ok) == generarMusicaConSuno_StoreIn("suno", ok)

\* POST /api/suno/callback, server.js lines 266-282: a callback for a task
\* the provider started, carrying an audio url; where taskId == taskId, limit(1)
sunoCallback_Read(taskId, j) ==
  /\ stage.callback.pc = "idle"
  /\ callbacks < MaxCallbacks
  /\ taskId \in 1 .. sunoTasks
  /\ musica[j].taskId = taskId
  /\ callbacks' = callbacks + 1
  /\ stage' = [stage EXCEPT !.callback = [pc |-> "load", job |-> j, todo |-> {}]]
  /\ hist' = [hist EXCEPT !.cbTask = taskId]
  /\ UNCHANGED << musica, sunoTasks >>
  /\ UNCHANGED leads
  /\ QueueUnchanged

\* server.js lines 284-317: download and upload, then update the job
sunoCallback_Write(ok) ==
  /\ stage.callback.pc = "load"
  /\ musica' = IF ok
               THEN [musica EXCEPT ![stage.callback.job].status = "Audio listo",
                                   ![stage.callback.job].fullUrl = TRUE]
               ELSE [musica EXCEPT ![stage.callback.job].status = "Error musica",
                                   ![stage.callback.job].errorMsg = "callback"]
  /\ stage' = [stage EXCEPT !.callback = StageIdle]
  /\ hist' = [hist EXCEPT !.cbTask = 0]
  /\ UNCHANGED << sunoTasks, callbacks >>
  /\ UNCHANGED leads
  /\ QueueUnchanged

\* procesarClips, lines 596-600: every job in 'Audio listo'
procesarClips_Read ==
  /\ stage.clips.pc = "idle"
  /\ WithStatus("Audio listo") # {}
  /\ stage' = [stage EXCEPT !.clips =
                 [pc |-> "next", job |-> 0, todo |-> WithStatus("Audio listo")]]
  /\ UNCHANGED << musica, sunoTasks, callbacks >>
  /\ UNCHANGED leads
  /\ QueueUnchanged
  /\ UNCHANGED hist

\* lines 602-611: the next job of the snapshot
procesarClips_Begin ==
  /\ stage.clips.pc = "next"
  /\ LET j == Min(stage.clips.todo)
     IN IF ~musica[j].fullUrl
        THEN /\ stage' = [stage EXCEPT !.clips = NextOf(stage.clips)]
             /\ UNCHANGED musica
        ELSE /\ musica' = [musica EXCEPT ![j].status = "Generando clip"]
             /\ stage' = [stage EXCEPT !.clips.pc = "work", !.clips.job = j]
  /\ UNCHANGED << sunoTasks, callbacks >>
  /\ UNCHANGED leads
  /\ QueueUnchanged
  /\ UNCHANGED hist

ClipOutcomes == {"ok", "download", "Error clip", "Error watermark", "Error upload clip"}

\* variant: the outcome itself is written
ClipStatus_Raw(outcome) == outcome

\* lines 637, 660, 674, 678: the status the clip stage writes for an outcome
ClipStatus(outcome) == IF outcome = "ok" THEN "Enviar musica" ELSE outcome

\* lines 613-685: a failed download throws out of the function; a failed
\* transcoding or upload marks the job and the loop goes on
procesarClips_End(outcome) ==
  /\ stage.clips.pc = "work"
  /\ IF outcome = "download"
     THEN /\ stage' = [stage EXCEPT !.clips = StageIdle]
          /\ UNCHANGED musica
     ELSE /\ musica' = [musica EXCEPT ![stage.clips.job].status = ClipStatus(outcome),
                                      ![stage.clips.job].clipUrl =
                          IF outcome = "ok" THEN TRUE ELSE @]
          /\ stage' = [stage EXCEPT !.clips = NextOf(stage.clips)]
  /\ UNCHANGED << sunoTasks, callbacks >>
  /\ UNCHANGED leads
  /\ QueueUnchanged
  /\ UNCHANGED hist

\* line 713: `https://cantalab.com/escuchar/${leadPhone}`
ListenUrl(leadPhone) == << "https://cantalab.com/escuchar/" >> \o leadPhone

\* enviarMusicaPorWhatsApp, lines 691-692: every job in 'Enviar música'
enviarMusicaPorWhatsApp_ReadIn(slot) ==
  /\ stage[slot].pc = "idle"
  /\ WithStatus("Enviar musica") # {}
  /\ stage' = [stage EXCEPT ![slot] =
                 [pc |-> "next", job |-> 0, todo |-> WithStatus("Enviar musica")]]
  /\ UNCHANGED << musica, sunoTasks, callbacks, leads >>
  /\ QueueUnchanged
  /\ UNCHANGED hist

\* lines 703-726 and 737-740: the lyrics, then the link, then the job is
\* marked; a failed send marks it in error
enviarMusicaPorWhatsApp_SendIn(slot) ==
  /\ stage[slot].pc = "next"
  /\ \E a1, a2 \in DeliveryAnswers :
       LET j == Min(stage[slot].todo)
           r1 == sendMessageToLead(whatsappSock, a1)
           r2 == IF r1.ok THEN sendMessageToLead(whatsappSock, a2) ELSE r1
       IN IF r2.ok
          THEN /\ musica' = [musica EXCEPT ![j].status = "Enviada",
                                           ![j].listenUrl = ListenUrl(musica[j].leadPhone)]
               /\ stage' = [stage EXCEPT ![slot].pc = "tag", ![slot].job = j]
               /\ hist' = [hist EXCEPT !.enviados = @ \cup {j}]
          ELSE /\ musica' = [musica EXCEPT ![j].status = "Error musica",
                                           ![j].errorMsg = r2.msg]
               /\ stage' = [stage EXCEPT ![slot] = NextOf(stage[slot])]
               /\ hist' = [hist EXCEPT !.enviados =
                             IF NextOf(stage[slot]) = StageIdle THEN {}
                             ELSE @ \cup {j}]
  /\ UNCHANGED << sunoTasks, callbacks, leads >>
  /\ QueueUnchanged

\* lines 729-734: set({etiquetas: arrayUnion('CancionEnviada')}, {merge: true})
enviarMusicaPorWhatsApp_TagIn(slot) ==
  /\ stage[slot].pc = "tag"
  /\ LET l == musica[stage[slot].job].leadId
         tags == IF leads[l] = NoDoc THEN {} ELSE leads[l].etiquetas
     IN leads' = [leads EXCEPT ![l] = MergeLead(@, "etiquetas", tags \cup {"CancionEnviada"})]
  /\ stage' = [stage EXCEPT ![slot] = NextOf(stage[slot])]
  /\ hist' = [hist EXCEPT !.enviados =
                IF NextOf(stage[slot]) = StageIdle THEN {} ELSE @]
  /\ UNCHANGED << musica, sunoTasks, callbacks >>
  /\ QueueUnchanged

\* the invocation of a cron tick, and (enviar2) one that overlaps it
enviarMusicaPorWhatsApp_Read == enviarMusicaPorWhatsApp_ReadIn("enviar")
enviarMusicaPorWhatsApp_Send == enviarMusicaPorWhatsApp_SendIn("enviar")
enviarMusicaPorWhatsApp_Tag == enviarMusicaPorWhatsApp_TagIn("enviar")

\* variant: the age compared the other way round
Stuck_Newer(thresholdMin) ==
  {j \in WithStatus("Procesando musica") :
     musica[j].generatedAt >= now - thresholdMin * MsPerMin}

\* retryStuckMusic, lines 747-751: where status == 'Procesando música' and
\* generatedAt <= cutoff
Stuck(thresholdMin) ==
  {j \in WithStatus("Procesando musica") :
     musica[j].generatedAt <= now - thresholdMin * MsPerMin}

retryStuckMusic_Read(thresholdMin) ==
  /\ stage.retry.pc = "idle"
  /\ Stuck(thresholdMin) # {}
  /\ stage' = [stage EXCEPT !.retry =
                 [pc |-> "next", job |-> 0, todo |-> Stuck(thresholdMin)]]
  /\ hist' = [hist EXCEPT !.sweepNow = now, !.sweepJobs = musica, !.sweepAlone = FALSE]
  /\ UNCHANGED << musica, sunoTasks, callbacks >>
  /\ UNCHANGED leads
  /\ QueueUnchanged

\* variant: the task id and the message are cleared, the status is left
ResetDoc_KeepStatus(doc) == [doc EXCEPT !.taskId = 0, !.errorMsg = ""]

\* lines 754-759: status 'Sin música', taskId and errorMsg deleted
ResetDoc(doc) == [doc EXCEPT !.status = "Sin musica", !.taskId = 0, !.errorMsg = ""]

\* the jobs the query of the sweep in flight returned
SweepSnapshot ==
  {k \in DOMAIN hist.sweepJobs :
     /\ hist.sweepJobs[k].status = "Procesando musica"
     /\ hist.sweepJobs[k].generatedAt <= hist.sweepNow - RetryThresholdMin * MsPerMin}

\* since the query of the sweep in flight the clock has not moved and
\* nothing but the sweep's own updates has written a job
SweepAlone ==
  /\ now = hist.sweepNow
  /\ \A k \in JobIds :
       musica[k] = IF k \in SweepSnapshot \ stage.retry.todo
                   THEN ResetDoc(hist.sweepJobs[k])
                   ELSE hist.sweepJobs[k]

\* what the history keeps of a sweep: the task id it cleared; until its last
\* update, the clock and the jobs its query saw; from then on, whether it ran
\* alone
AfterReset(h, j) ==
  [h EXCEPT !.cleared = IF musica[j].taskId = 0 THEN @ ELSE @ \cup {musica[j].taskId},
            !.sweepNow = IF stage.retry.todo = {j} THEN -1 ELSE @,
            !.sweepJobs = IF stage.retry.todo = {j} THEN << >> ELSE @,
            !.sweepAlone = stage.retry.todo = {j} /\ SweepAlone]

\* lines 753-760: one update per document of the snapshot
retryStuckMusic_Reset ==
  /\ stage.retry.pc = "next"
  /\ musica' = [musica EXCEPT ![Min(stage.retry.todo)] = ResetDoc(@)]
  /\ stage' = [stage EXCEPT !.retry = NextOf(stage.retry)]
  /\ hist' = AfterReset(hist, Min(stage.retry.todo))
  /\ UNCHANGED << sunoTasks, callbacks >>
  /\ UNCHANGED leads
  /\ QueueUnchanged

(* ------------------ POST /api/music/progress (server.js) --------------- *)

\* the threshold of the player's report, in percent (line 725)
HalfPct == 50

\* seen: the tasks the request's cancellation found pending; pct: the
\* playback fraction of the request body, in percent
\* the handlers of inbound messages that can run together (one per
\* messages.upsert event)
Inbound == {"m1", "m2"}

\* exists, hadTag, flagged: what the handler read from the lead document
InboundIdle == [pc |-> "idle", leadId |-> "", trigger |-> "", exists |-> FALSE,
                hadTag |-> FALSE, flagged |-> FALSE]

\* snap, todo: the leads of the snapshot of a processSequences cycle, and
\* those its sweep has still to handle; inbound: the handlers of inbound
\* messages
ProgIdle == [pc |-> "idle", job |-> 0, leadId |-> "", seen |-> {}, pct |-> 0,
             snap |-> {}, todo |-> {}, inbound |-> [m \in Inbound |-> InboundIdle]]

Tokens == {"t1", "t2", "t9"}

\* lines 716-723: const { token, pct } = req.body; where listen.token ==
\* token, limit(1)
musicProgress_ReadPct(token, j, pct) ==
  /\ prog.pc = "idle"
  /\ musica[j].token = token
  /\ prog' = [ProgIdle EXCEPT !.pc = "mark", !.job = j,
                              !.leadId = musica[j].leadId, !.pct = pct]
  /\ lastReturn' = NoReturn
  /\ UNCHANGED << now, whatsappSock, sequenceQueue, leads, sched, cancel, pq,
                  gateway, musicVars >>

\* the report the player sends when half of the audio has been played
musicProgress_Read(token, j) == musicProgress_ReadPct(token, j, HalfPct)

\* line 726: set({'listen.halfHeard': true}, {merge: true})
musicProgress_Mark ==
  /\ prog.pc = "mark"
  /\ musica' = [musica EXCEPT ![prog.job].halfHeard = TRUE]
  /\ prog' = [prog EXCEPT !.pc = "cancel"]
  /\ lastReturn' = NoReturn
  /\ UNCHANGED << now, whatsappSock, sequenceQueue, leads, sched, cancel, pq,
                  gateway, sunoTasks, callbacks, stage, stream, manual, hist, call,
                  rival >>

\* variant: the handler does not wait for the batch of the cancellation
AfterCancel_NoWait(c) == "schedule"

\* line 730: the handler goes on once cancelSequences has returned, with
\* its batch committed when there was one
AfterCancel(c) == IF c.pc = "commit" THEN "cancelled" ELSE "schedule"

\* line 730: await cancelSequences(data.leadId, ['MusicaLead'])
musicProgress_Cancel ==
  /\ prog.pc = "cancel"
  /\ cancelSequences_Read(prog.leadId, {"MusicaLead"})
  /\ prog' = [prog EXCEPT !.pc = AfterCancel(cancel'),
                          !.seen = IF cancel'.pc = "commit" THEN cancel'.del ELSE {}]

musicProgress_Cancelled ==
  /\ prog.pc = "cancelled"
  /\ cancelSequences_Commit
  /\ prog' = [prog EXCEPT !.pc = "schedule"]

\* line 732: await scheduleSequenceForLead(data.leadId, 'LeadSeguimiento', new Date())
musicProgress_Schedule ==
  /\ prog.pc = "schedule"
  /\ scheduleSequenceForLead_Commit(prog.leadId, "LeadSeguimiento")
  /\ prog' = IF sched'.pc = "committed" THEN [prog EXCEPT !.pc = "scheduled"]
             ELSE ProgIdle

\* line 736: res.json({ok: true})
musicProgress_Scheduled ==
  /\ prog.pc = "scheduled"
  /\ scheduleSequenceForLead_Hint
  /\ prog' = ProgIdle

(* -------------- messages.upsert handler (whatsappService.js) ----------- *)

\* line 184: '#webPro1490' in the text, else cfg.defaultTrigger || 'NuevoLead'
InboundTriggers == {"NuevoLead", "MusicaLead", "LeadWeb1490"}

\* lines 194-201: the document of a new lead
NewLead(leadId, trigger) ==
  [exists |-> TRUE,
   telefono |-> IF leadId = "l1" THEN << "5", "2" >> ELSE << "5", "3" >>,
   nombre |-> << >>, hasActiveSequences |-> FALSE, etiquetas |-> {trigger},
   estadoProduccion |-> "", nuevoLeadCancelled |-> FALSE]

\* lines 207 and 230: the handler cancels 'NuevoLead'
CancelsNuevoLead(h) == h.trigger = "MusicaLead" /\ (~h.exists \/ ~h.flagged)

\* lines 203-204 and 225-227: a new lead, or one without the tag
AfterWrite(h) ==
  IF ~h.exists \/ ~h.hadTag THEN "schedule"
  ELSE IF CancelsNuevoLead(h) THEN "cancel" ELSE "idle"

AfterSchedule(h) == IF CancelsNuevoLead(h) THEN "cancel" ELSE "idle"

\* handler m goes on at `pc`, or has finished
Settle(m, pc) ==
  [prog EXCEPT !.inbound[m] = IF pc = "idle" THEN InboundIdle
                              ELSE [prog.inbound[m] EXCEPT !.pc = pc]]

\* lines 175-176 and 213-216: leadRef.get()
inbound_Read(m, leadId, trigger) ==
  /\ prog.inbound[m].pc = "idle"
  /\ prog' = [prog EXCEPT !.inbound[m] =
                 [pc |-> "write", leadId |-> leadId, trigger |-> trigger,
                  exists |-> leads[leadId] # NoDoc,
                  hadTag |-> leads[leadId] # NoDoc /\ trigger \in leads[leadId].etiquetas,
                  flagged |-> leads[leadId] # NoDoc /\ leads[leadId].nuevoLeadCancelled]]
  /\ lastReturn' = NoReturn
  /\ UNCHANGED << now, whatsappSock, sequenceQueue, leads, sched, cancel, pq,
                  gateway, musicVars >>

\* lines 192-201: leadRef.set({...}) for a new lead; lines 218-222:
\* leadRef.update({etiquetas: arrayUnion(trigger)}) for a known one
inbound_Write(m) ==
  /\ prog.inbound[m].pc = "write"
  /\ LET h == prog.inbound[m]
     IN /\ leads' = [leads EXCEPT ![h.leadId] =
                       IF ~h.exists THEN NewLead(h.leadId, h.trigger)
                       ELSE [@ EXCEPT !.etiquetas = @ \cup {h.trigger}]]
        /\ prog' = Settle(m, AfterWrite(h))
  /\ lastReturn' = NoReturn
  /\ UNCHANGED << now, whatsappSock, sequenceQueue, sched, cancel, pq, gateway,
                  musicVars >>

\* lines 204 and 226: await scheduleSequenceForLead(leadId, trigger)
inbound_Schedule(m) ==
  /\ prog.inbound[m].pc = "schedule"
  /\ scheduleSequenceForLead_Commit(prog.inbound[m].leadId, prog.inbound[m].trigger)
  /\ prog' = Settle(m, IF sched'.pc = "committed" THEN "hint"
                       ELSE AfterSchedule(prog.inbound[m]))

inbound_Scheduled(m) ==
  /\ prog.inbound[m].pc = "hint"
  /\ scheduleSequenceForLead_Hint
  /\ prog' = Settle(m, AfterSchedule(prog.inbound[m]))

\* lines 208 and 231: await cancelSequences(leadId, ['NuevoLead'])
inbound_Cancel(m) ==
  /\ prog.inbound[m].pc = "cancel"
  /\ cancelSequences_Read(prog.inbound[m].leadId, {"NuevoLead"})
  /\ prog' = Settle(m, IF cancel'.pc = "commit" THEN "cancelCommit" ELSE "idle")

inbound_Cancelled(m) ==
  /\ prog.inbound[m].pc = "cancelCommit"
  /\ cancelSequences_Commit
  /\ prog' = Settle(m, "flag")

\* lines 209-211 and 232-234: set({nuevoLeadCancelled: true}, {merge: true})
inbound_Flag(m) ==
  /\ prog.inbound[m].pc = "flag"
  /\ leads' = [leads EXCEPT ![prog.inbound[m].leadId] =
                 MergeLead(@, "nuevoLeadCancelled", TRUE)]
  /\ prog' = Settle(m, "idle")
  /\ lastReturn' = NoReturn
  /\ UNCHANGED << now, whatsappSock, sequenceQueue, sched, cancel, pq, gateway,
                  musicVars >>

(* ------------------- processSequences (scheduler.js) ------------------- *)

\* the leads tagged 'MusicaLead' (lines 438-442; limit 300 is never reached)
FormLeads == {l \in LeadIds : leads[l] # NoDoc /\ "MusicaLead" \in leads[l].etiquetas}

\* the documents of a snapshot come in the order of their ids
FirstLead(ls) == IF "l1" \in ls THEN "l1" ELSE "l2"

\* the cycle passes from the sweep to the dispatch once no lead is left
AfterSweep(todo) == IF todo = {} THEN "dispatch" ELSE "sweep"

\* line 449: if (lead.nuevoLeadCancelled) continue
SweepTodo(snap) == {l \in snap : ~leads[l].nuevoLeadCancelled}

\* lines 437-444: the cycle starts, cancelNuevoLeadForFormLeads runs its query
processSequences_Sweep ==
  /\ prog.pc = "idle"
  /\ prog' = [ProgIdle EXCEPT !.pc = AfterSweep(SweepTodo(FormLeads)),
                              !.snap = FormLeads,
                              !.todo = SweepTodo(FormLeads)]
  /\ lastReturn' = NoReturn
  /\ UNCHANGED << now, whatsappSock, sequenceQueue, leads, sched, cancel, pq,
                  gateway, musicVars >>

\* line 451: await cancelSequences(lead.id, ['NuevoLead'])
processSequences_Cancel ==
  /\ prog.pc = "sweep"
  /\ cancelSequences_Read(FirstLead(prog.todo), {"NuevoLead"})
  /\ prog' = [prog EXCEPT !.pc = IF cancel'.pc = "commit" THEN "sweepCommit"
                                 ELSE "sweepFlag"]

processSequences_Cancelled ==
  /\ prog.pc = "sweepCommit"
  /\ cancelSequences_Commit
  /\ prog' = [prog EXCEPT !.pc = "sweepFlag"]

\* lines 454-457: set({nuevoLeadCancelled: true}, {merge: true}), whatever
\* the number of tasks cancelled
processSequences_Flag ==
  /\ prog.pc = "sweepFlag"
  /\ leads' = [leads EXCEPT ![FirstLead(prog.todo)] =
                 MergeLead(@, "nuevoLeadCancelled", TRUE)]
  /\ prog' = [prog EXCEPT !.todo = @ \ {FirstLead(prog.todo)},
                          !.pc = AfterSweep(prog.todo \ {FirstLead(prog.todo)})]
  /\ lastReturn' = NoReturn
  /\ UNCHANGED << now, whatsappSock, sequenceQueue, sched, cancel, pq, gateway,
                  musicVars >>

\* line 468: await processQueue({batchSize: 100})
processSequences_Dispatch(batchSize) ==
  /\ prog.pc = "dispatch"
  /\ processQueue_Query("w1", batchSize, NoShard)
  /\ prog' = IF pq'["w1"].pc = "running" THEN [prog EXCEPT !.pc = "dispatched"]
             ELSE ProgIdle

\* lines 469-474: processQueue has returned or thrown, the cycle ends
processSequences_Return ==
  /\ prog.pc = "dispatched"
  /\ pq["w1"].pc # "running"
  /\ prog' = ProgIdle
  /\ lastReturn' = NoReturn
  /\ UNCHANGED << now, whatsappSock, sequenceQueue, leads, sched, cancel, pq,
                  gateway, musicVars >>

(* --------------- GET /api/music/stream/:token (server.js) -------------- *)

\* requests that can be in flight together
Requests == {"r1", "r2"}

\* Number(data.listen?.maxPlays || 2)
MaxPlaysDefault == 2

StreamIdle == [pc |-> "idle", job |-> 0, file |-> FALSE]

\* what a stream request leaves alone
StreamUnchanged ==
  /\ lastReturn' = NoReturn
  /\ UNCHANGED << now, whatsappSock, sequenceQueue, leads, sched, cancel, pq, gateway >>
  /\ UNCHANGED << sunoTasks, callbacks, stage, prog, manual, call,
                  rival >>

\* lines 667-678: where listen.token == token, limit(1); listen.disabled is
\* never written; a request at the limit is refused
musicStream_Read(r, token, j) ==
  /\ stream[r].pc = "idle"
  /\ musica[j].token = token
  /\ musica[j].playCount < MaxPlaysDefault
  /\ stream' = [stream EXCEPT ![r] =
                  [pc |-> "count", job |-> j,
                   file |-> musica[j].clipUrl \/ musica[j].fullUrl]]
  /\ UNCHANGED << musica, hist >>
  /\ StreamUnchanged

\* lines 681-690: FieldValue.increment(1), then the file the document read
\* at line 671 names
musicStream_Count(r) ==
  /\ stream[r].pc = "count"
  /\ musica' = [musica EXCEPT ![stream[r].job].playCount = @ + 1]
  /\ stream' = [stream EXCEPT ![r] =
                  IF stream[r].file THEN [@ EXCEPT !.pc = "proxy"] ELSE StreamIdle]
  /\ UNCHANGED hist
  /\ StreamUnchanged

\* lines 693-706: the file is fetched and piped to the listener, or the
\* fetch fails
musicStream_Proxy(r, ok) ==
  /\ stream[r].pc = "proxy"
  /\ hist' = IF ok THEN [hist EXCEPT !.served[stream[r].job] = @ + 1] ELSE hist
  /\ stream' = [stream EXCEPT ![r] = StreamIdle]
  /\ UNCHANGED musica
  /\ StreamUnchanged

(* ------ POST /api/whatsapp/send-full and send-clip (server.js) --------- *)

ManualIdle == [pc |-> "idle", job |-> 0, leadId |-> ""]

\* what a manual send leaves alone
ManualUnchanged ==
  /\ lastReturn' = NoReturn
  /\ UNCHANGED << now, whatsappSock, sequenceQueue, sched, cancel, pq, gateway >>
  /\ UNCHANGED << sunoTasks, callbacks, stage, prog, stream, hist, call,
                  rival >>

\* send-full, lines 322-337: the lead, then where leadPhone == telefono,
\* limit(1), with a fullUrl
sendFull_Read(leadId, j) ==
  /\ manual.pc = "idle"
  /\ leads[leadId] # NoDoc
  /\ musica[j].leadPhone = Digits(leads[leadId].telefono)
  /\ musica[j].fullUrl
  /\ manual' = [pc |-> "full_send", job |-> j, leadId |-> leadId]
  /\ UNCHANGED << musica, leads >>
  /\ ManualUnchanged

\* send-clip, lines 357-372: the same with a clipUrl
sendClip_Read(leadId, j) ==
  /\ manual.pc = "idle"
  /\ leads[leadId] # NoDoc
  /\ musica[j].leadPhone = Digits(leads[leadId].telefono)
  /\ musica[j].clipUrl
  /\ manual' = [pc |-> "clip_send", job |-> j, leadId |-> leadId]
  /\ UNCHANGED << musica, leads >>
  /\ ManualUnchanged

\* lines 339 and 374: await sendClipMessage(telefono, url); a failure answers 500
manualSend_Send ==
  /\ manual.pc \in {"full_send", "clip_send"}
  /\ \E a \in DeliveryAnswers :
       manual' = IF sendClipMessage(whatsappSock, a).ok
                 THEN [manual EXCEPT !.pc = IF manual.pc = "full_send"
                                            THEN "full_mark" ELSE "clip_mark"]
                 ELSE ManualIdle
  /\ UNCHANGED << musica, leads >>
  /\ ManualUnchanged

\* lines 341-344: update({status: 'Enviada completa', sentAt})
sendFull_Mark ==
  /\ manual.pc = "full_mark"
  /\ musica' = [musica EXCEPT ![manual.job].status = "Enviada completa"]
  /\ manual' = [manual EXCEPT !.pc = "full_lead"]
  /\ UNCHANGED leads
  /\ ManualUnchanged

\* lines 345-349: update({estadoProduccion: 'Canción Enviada'}) on the lead
sendFull_Lead ==
  /\ manual.pc = "full_lead"
  /\ leads' = [leads EXCEPT ![manual.leadId].estadoProduccion = "Cancion Enviada"]
  /\ manual' = ManualIdle
  /\ UNCHANGED musica
  /\ ManualUnchanged

\* lines 376-381: update({status: 'Enviado por botón', sentAt})
sendClip_Mark ==
  /\ manual.pc = "clip_mark"
  /\ musica' = [musica EXCEPT ![manual.job].status = "Enviado por boton"]
  /\ manual' = ManualIdle
  /\ UNCHANGED leads
  /\ ManualUnchanged

(* ------------------------------ environment ---------------------------- *)

\* connectToWhatsApp: whatsappSock = makeWASocket(...)
connectToWhatsApp ==
  /\ ~whatsappSock
  /\ whatsappSock' = TRUE
  /\ lastReturn' = NoReturn
  /\ UNCHANGED << now, sequenceQueue, leads, sched, cancel, pq, gateway >>
  /\ UNCHANGED << musicVars, prog >>

\* the clock advances by TickMin minutes, at most `ticks` times
Tick(ticks) ==
  /\ now < ticks * TickMin * MsPerMin
  /\ now' = now + TickMin * MsPerMin
  /\ pq' = Stale(pq)
  /\ lastReturn' = NoReturn
  /\ UNCHANGED << whatsappSock, sequenceQueue, leads, sched, cancel, gateway >>
  /\ UNCHANGED << musicVars, prog >>

CancelSets == {{}, {"NuevoLead"}, {"MusicaLead"}, {"NuevoLead", "MusicaLead"}}

\* tags: the etiquetas lead l1 starts with
InitTagged(tags) ==
  /\ now = 0
  /\ whatsappSock = FALSE
  /\ sequenceQueue = << >>
  /\ leads = [l \in LeadIds |->
               IF l = "l1"
               THEN [exists |-> TRUE, telefono |-> << "+", "5", "2" >>,
                     nombre |-> << "A", "n", "a", " ", "M" >>,
                     hasActiveSequences |-> FALSE, etiquetas |-> tags,
                     estadoProduccion |-> "", nuevoLeadCancelled |-> FALSE]
               ELSE NoDoc]
  /\ sched = SchedIdle
  /\ cancel = CancelIdle
  /\ pq = [w \in Workers |-> PqIdle]
  /\ gateway = << >>
  /\ lastReturn = NoReturn
  /\ musica = [j \in JobIds |->
                [status |-> "Sin letra", taskId |-> 0, generatedAt |-> -1,
                 errorMsg |-> "", fullUrl |-> FALSE, clipUrl |-> FALSE,
                 leadId |-> IF j = 1 THEN "l1" ELSE "l2",
                 leadPhone |-> IF j = 1 THEN << "5", "2" >> ELSE << "5", "3" >>,
                 token |-> IF j = 1 THEN "t1" ELSE "t2", listenUrl |-> << >>,
                 halfHeard |-> FALSE, playCount |-> 0]]
  /\ sunoTasks = 0
  /\ callbacks = 0
  /\ stage = [f \in {"letra", "prompt", "suno", "suno2", "callback", "clips", "enviar",
                       "enviar2", "retry"} |->
                StageIdle]
  /\ prog = ProgIdle
  /\ stream = [r \in Requests |-> StreamIdle]
  /\ manual = ManualIdle
  /\ hist = NoHistory
  /\ rival = RivalIdle

InitStore == InitTagged({})

Init == InitStore /\ call = NoCall

Next ==
  \/ \E l \in LeadIds, t \in Triggers : scheduleSequenceForLead_Commit(l, t) /\ UNCHANGED prog
  \/ scheduleSequenceForLead_Hint /\ UNCHANGED prog
  \/ \E b \in 1 .. MaxBatch : processQueue_Scan("w1", b)
  \/ \E id \in TaskIds : processQueue_Deliver("w1", id)
  \/ \E id \in TaskIds : processQueue_MarkSent("w1", id)
  \/ \E id \in TaskIds : processQueue_MarkError("w1", id)
  \/ connectToWhatsApp
  \/ Tick(MaxTicks)

\* the queue over time: scheduling, and one processQueue invocation at a time
Spec == Init /\ [][Next]_vars

NextInbound ==
  \/ \E m \in Inbound, l \in LeadIds, t \in InboundTriggers : inbound_Read(m, l, t)
  \/ \E m \in Inbound : inbound_Write(m)
  \/ \E m \in Inbound : inbound_Schedule(m)
  \/ \E m \in Inbound : inbound_Scheduled(m)
  \/ \E m \in Inbound : inbound_Cancel(m)
  \/ \E m \in Inbound : inbound_Cancelled(m)
  \/ \E m \in Inbound : inbound_Flag(m)

\* inbound messages handled one after the other and together
SpecInbound == Init /\ [][NextInbound]_vars

\* lead l1 carries the tag 'MusicaLead'
InitCycle == InitTagged({"MusicaLead"}) /\ call = NoCall

NextCycle ==
  \/ processSequences_Sweep
  \/ processSequences_Cancel
  \/ processSequences_Cancelled
  \/ processSequences_Flag
  \/ \E b \in 1 .. MaxBatch : processSequences_Dispatch(b)
  \/ processSequences_Return
  \/ \E id \in TaskIds : processQueue_Deliver("w1", id)
  \/ \E id \in TaskIds : processQueue_MarkSent("w1", id)
  \/ \E id \in TaskIds : processQueue_MarkError("w1", id)
  \/ scheduleSequenceForLead_Commit("l1", "NuevoLead") /\ UNCHANGED prog
  \/ scheduleSequenceForLead_Hint /\ UNCHANGED prog
  \/ connectToWhatsApp
  \/ Tick(MaxTicks)

\* processSequences cycles, one at a time, for a lead tagged 'MusicaLead'
\* whose 'NuevoLead' sequence is scheduled between them
SpecCycle == InitCycle /\ [][NextCycle]_vars

NextOrder ==
  \/ scheduleSequenceForLead_Commit("l1", "LeadWeb1490") /\ UNCHANGED prog
  \/ scheduleSequenceForLead_Hint /\ UNCHANGED prog
  \/ \E b \in 1 .. MaxBatch : processQueue_Scan("w1", b)
  \/ \E id \in TaskIds : processQueue_Deliver("w1", id)
  \/ \E id \in TaskIds : processQueue_MarkSent("w1", id)
  \/ \E id \in TaskIds : processQueue_MarkError("w1", id)
  \/ connectToWhatsApp
  \/ Tick(MaxTicks)

\* the dispatch of a sequence of two text messages
SpecOrder == Init /\ [][NextOrder]_vars

NextCancel ==
  \/ \E l \in LeadIds, t \in Triggers : scheduleSequenceForLead_Commit(l, t) /\ UNCHANGED prog
  \/ scheduleSequenceForLead_Hint /\ UNCHANGED prog
  \/ \E l \in LeadIds, S \in CancelSets : cancelSequences_Read(l, S) /\ UNCHANGED prog
  \/ cancelSequences_Commit /\ UNCHANGED prog
  \/ \E b \in 1 .. MaxBatch : processQueue_Scan("w1", b)
  \/ \E id \in TaskIds : processQueue_Deliver("w1", id)
  \/ \E id \in TaskIds : processQueue_MarkSent("w1", id)
  \/ \E id \in TaskIds : processQueue_MarkError("w1", id)
  \/ connectToWhatsApp

\* the queue at one instant: scheduling, cancelling and one processQueue
\* invocation, interleaved
SpecCancel == Init /\ [][NextCancel]_vars

NextRival ==
  \/ \E l \in LeadIds, t \in Triggers : scheduleSequenceForLead_Commit(l, t) /\ UNCHANGED prog
  \/ scheduleSequenceForLead_Hint /\ UNCHANGED prog
  \/ \E l \in LeadIds, S \in CancelSets : cancelSequences_Read(l, S) /\ UNCHANGED prog
  \/ cancelSequences_Commit /\ UNCHANGED prog
  \/ \E l \in LeadIds, S \in CancelSets : rivalCancelSequences_Read(l, S)
  \/ rivalCancelSequences_Commit

\* scheduling and two cancelSequences calls, interleaved
SpecRival == Init /\ [][NextRival]_vars

\* the shard each worker is started with: the first and the last
WorkerShard == [w \in Workers |-> IF w = "w1" THEN 0 ELSE NumShards - 1]

NextShard ==
  \/ \E draws \in Draws(Len(SeqMessages("LeadSeguimiento"))) :
       scheduleSequenceForLead_Draw("l1", "LeadSeguimiento", draws) /\ UNCHANGED prog
  \/ scheduleSequenceForLead_Hint /\ UNCHANGED prog
  \/ \E w \in Workers, b \in 1 .. MaxBatch :
       processQueue_ScanShard(w, b, WorkerShard[w])
  \/ \E w \in Workers, id \in TaskIds : processQueue_Deliver(w, id)
  \/ \E w \in Workers, id \in TaskIds : processQueue_MarkSent(w, id)
  \/ \E w \in Workers, id \in TaskIds : processQueue_MarkError(w, id)
  \/ connectToWhatsApp

\* the queue with two processQueue workers that are each given a shard
SpecShard == Init /\ [][NextShard]_vars

\* a second invocation starts only while the first is in flight (the two
\* slots are interchangeable)
Overlapping(w) == w = "w1" \/ pq["w1"].pc # "idle"

NextOverlap ==
  \/ \E l \in LeadIds, t \in Triggers : scheduleSequenceForLead_Commit(l, t) /\ UNCHANGED prog
  \/ scheduleSequenceForLead_Hint /\ UNCHANGED prog
  \/ \E w \in Workers, b \in 1 .. MaxBatch : Overlapping(w) /\ processQueue_Scan(w, b)
  \/ \E w \in Workers, id \in TaskIds : processQueue_Deliver(w, id)
  \/ \E w \in Workers, id \in TaskIds : processQueue_MarkSent(w, id)
  \/ \E w \in Workers, id \in TaskIds : processQueue_MarkError(w, id)
  \/ connectToWhatsApp
  \/ Tick(MaxTicks)

\* the queue with overlapping processQueue invocations (overlapping cron ticks)
SpecOverlap == Init /\ [][NextOverlap]_vars

NextMusic ==
  \/ \E j \in JobIds : generarLetraParaMusica_Read(j)
  \/ \E ok \in BOOLEAN : generarLetraParaMusica_Write(ok)
  \/ \E j \in JobIds : generarPromptParaMusica_Read(j)
  \/ \E ok \in BOOLEAN : generarPromptParaMusica_Write(ok)
  \/ \E j \in JobIds : generarMusicaConSuno_Read(j)
  \/ generarMusicaConSuno_Mark
  \/ \E ok \in BOOLEAN : generarMusicaConSuno_Store(ok)
  \/ \E t \in 1 .. MaxSunoTasks, j \in JobIds :
       sunoCallback_Read(t, j)
  \/ \E ok \in BOOLEAN : sunoCallback_Write(ok)
  \/ procesarClips_Read
  \/ procesarClips_Begin
  \/ \E o \in ClipOutcomes : procesarClips_End(o)
  \/ enviarMusicaPorWhatsApp_Read
  \/ enviarMusicaPorWhatsApp_Send
  \/ enviarMusicaPorWhatsApp_Tag
  \/ retryStuckMusic_Read(RetryThresholdMin)
  \/ retryStuckMusic_Reset
  \/ connectToWhatsApp
  \/ Tick(MaxMusicTicks)

\* the production pipeline: stage functions, generation callbacks, recovery sweep
SpecMusic == Init /\ [][NextMusic]_vars

NextRetry ==
  \/ \E j \in JobIds : generarLetraParaMusica_Read(j)
  \/ \E ok \in BOOLEAN : generarLetraParaMusica_Write(ok)
  \/ \E j \in JobIds : generarPromptParaMusica_Read(j)
  \/ \E ok \in BOOLEAN : generarPromptParaMusica_Write(ok)
  \/ \E j \in JobIds : generarMusicaConSuno_Read(j)
  \/ generarMusicaConSuno_Mark
  \/ \E ok \in BOOLEAN : generarMusicaConSuno_Store(ok)
  \/ \E t \in 1 .. MaxSunoTasks, j \in JobIds : sunoCallback_Read(t, j)
  \/ \E ok \in BOOLEAN : sunoCallback_Write(ok)
  \/ retryStuckMusic_Read(RetryThresholdMin)
  \/ retryStuckMusic_Reset
  \/ Tick(MaxMusicTicks)

EnviarSlots == {"enviar", "enviar2"}

NextSweeps ==
  \/ \E j \in JobIds : generarLetraParaMusica_Read(j)
  \/ \E ok \in BOOLEAN : generarLetraParaMusica_Write(ok)
  \/ \E j \in JobIds : generarPromptParaMusica_Read(j)
  \/ \E ok \in BOOLEAN : generarPromptParaMusica_Write(ok)
  \/ \E j \in JobIds : generarMusicaConSuno_Read(j)
  \/ generarMusicaConSuno_Mark
  \/ \E ok \in BOOLEAN : generarMusicaConSuno_Store(ok)
  \/ \E t \in 1 .. MaxSunoTasks, j \in JobIds :
       sunoCallback_Read(t, j)
  \/ \E ok \in BOOLEAN : sunoCallback_Write(ok)
  \/ procesarClips_Read
  \/ procesarClips_Begin
  \/ \E o \in ClipOutcomes : procesarClips_End(o)
  \/ \E slot \in EnviarSlots : enviarMusicaPorWhatsApp_ReadIn(slot)
  \/ \E slot \in EnviarSlots : enviarMusicaPorWhatsApp_SendIn(slot)
  \/ \E slot \in EnviarSlots : enviarMusicaPorWhatsApp_TagIn(slot)
  \/ connectToWhatsApp

\* the production pipeline with overlapping enviarMusicaPorWhatsApp sweeps
SpecSweeps == Init /\ [][NextSweeps]_vars

NextSuno ==
  \/ \E j \in JobIds : generarLetraParaMusica_Read(j)
  \/ \E ok \in BOOLEAN : generarLetraParaMusica_Write(ok)
  \/ \E j \in JobIds : generarPromptParaMusica_Read(j)
  \/ \E ok \in BOOLEAN : generarPromptParaMusica_Write(ok)
  \/ \E slot \in {"suno", "suno2"}, j \in JobIds : generarMusicaConSuno_ReadIn(slot, j)
  \/ \E slot \in {"suno", "suno2"} : generarMusicaConSuno_MarkIn(slot)
  \/ \E slot \in {"suno", "suno2"}, ok \in BOOLEAN : generarMusicaConSuno_StoreIn(slot, ok)
  \/ retryStuckMusic_Read(RetryThresholdMin)
  \/ retryStuckMusic_Reset
  \/ Tick(MaxMusicTicks)

\* generation with overlapping generarMusicaConSuno invocations and the
\* recovery sweep
SpecSuno == Init /\ [][NextSuno]_vars

\* generation and its recovery sweep: the stages up to the callback
SpecRetry == Init /\ [][NextRetry]_vars

\* the job the manual endpoints can reach: the one whose leadPhone is the
\* phone of an existing lead
Reachable == {j \in JobIds : \E l \in LeadIds :
                /\ leads[l] # NoDoc
                /\ musica[j].leadPhone = Digits(leads[l].telefono)}

NextManual ==
  \/ \E j \in Reachable : generarLetraParaMusica_Read(j)
  \/ \E ok \in BOOLEAN : generarLetraParaMusica_Write(ok)
  \/ \E j \in Reachable : generarPromptParaMusica_Read(j)
  \/ \E ok \in BOOLEAN : generarPromptParaMusica_Write(ok)
  \/ \E j \in Reachable : generarMusicaConSuno_Read(j)
  \/ generarMusicaConSuno_Mark
  \/ \E ok \in BOOLEAN : generarMusicaConSuno_Store(ok)
  \/ \E t \in 1 .. MaxSunoTasks, j \in Reachable : sunoCallback_Read(t, j)
  \/ \E ok \in BOOLEAN : sunoCallback_Write(ok)
  \/ procesarClips_Read
  \/ procesarClips_Begin
  \/ \E o \in ClipOutcomes : procesarClips_End(o)
  \/ enviarMusicaPorWhatsApp_Read
  \/ enviarMusicaPorWhatsApp_Send
  \/ enviarMusicaPorWhatsApp_Tag
  \/ retryStuckMusic_Read(RetryThresholdMin)
  \/ retryStuckMusic_Reset
  \/ \E l \in LeadIds, j \in JobIds : sendFull_Read(l, j)
  \/ \E l \in LeadIds, j \in JobIds : sendClip_Read(l, j)
  \/ manualSend_Send
  \/ sendFull_Mark
  \/ sendFull_Lead
  \/ sendClip_Mark
  \/ connectToWhatsApp
  \/ Tick(MaxMusicTicks)

\* every operation that writes a job's status, manual sends included,
\* followed on the job the manual endpoints can reach
SpecManual == Init /\ [][NextManual]_vars

NextSwitch ==
  \/ \E t \in Tokens, j \in JobIds : musicProgress_Read(t, j)
  \/ musicProgress_Mark
  \/ musicProgress_Cancel
  \/ musicProgress_Cancelled
  \/ musicProgress_Schedule
  \/ musicProgress_Scheduled
  \/ \E l \in LeadIds : scheduleSequenceForLead_Commit(l, "MusicaLead") /\ UNCHANGED prog
  \/ prog.pc # "scheduled" /\ scheduleSequenceForLead_Hint /\ UNCHANGED prog
  \/ Tick(MaxTicks)

\* the playback fractions a request can report, in percent
Pcts == {0, HalfPct - 1, HalfPct, 100}

NextPct ==
  \/ \E t \in Tokens, j \in JobIds, pct \in Pcts : musicProgress_ReadPct(t, j, pct)
  \/ musicProgress_Mark
  \/ musicProgress_Cancel
  \/ musicProgress_Cancelled
  \/ musicProgress_Schedule
  \/ musicProgress_Scheduled
  \/ \E l \in LeadIds : scheduleSequenceForLead_Commit(l, "MusicaLead") /\ UNCHANGED prog
  \/ prog.pc # "scheduled" /\ scheduleSequenceForLead_Hint /\ UNCHANGED prog
  \/ Tick(MaxTicks)

\* listen-progress requests with any reported fraction
SpecPct == Init /\ [][NextPct]_vars

\* listen-progress requests against the scheduling of the sales sequence
SpecSwitch == Init /\ [][NextSwitch]_vars

NextLive ==
  \/ \E j \in Reachable : generarLetraParaMusica_Read(j)
  \/ \E ok \in BOOLEAN : generarLetraParaMusica_Write(ok)
  \/ \E j \in Reachable : generarPromptParaMusica_Read(j)
  \/ \E ok \in BOOLEAN : generarPromptParaMusica_Write(ok)
  \/ \E j \in Reachable : generarMusicaConSuno_Read(j)
  \/ generarMusicaConSuno_Mark
  \/ \E ok \in BOOLEAN : generarMusicaConSuno_Store(ok)
  \/ \E t \in 1 .. MaxSunoTasks, j \in Reachable : sunoCallback_Read(t, j)
  \/ \E ok \in BOOLEAN : sunoCallback_Write(ok)
  \/ procesarClips_Read
  \/ procesarClips_Begin
  \/ \E o \in ClipOutcomes : procesarClips_End(o)
  \/ enviarMusicaPorWhatsApp_Read
  \/ enviarMusicaPorWhatsApp_Send
  \/ enviarMusicaPorWhatsApp_Tag
  \/ retryStuckMusic_Read(RetryThresholdMin)
  \/ retryStuckMusic_Reset
  \/ connectToWhatsApp
  \/ Tick(MaxMusicTicks)

\* cron runs every stage function and the sweep again and again, a started
\* invocation runs on to its end, the provider posts the callback of a
\* task it started, the text provider does not fail for ever, the clock
\* advances and the gateway connects
FairLive ==
  /\ WF_vars(\E j \in Reachable : generarLetraParaMusica_Read(j))
  /\ WF_vars(\E ok \in BOOLEAN : generarLetraParaMusica_Write(ok))
  /\ SF_vars(generarLetraParaMusica_Write(TRUE))
  /\ WF_vars(\E j \in Reachable : generarPromptParaMusica_Read(j))
  /\ WF_vars(\E ok \in BOOLEAN : generarPromptParaMusica_Write(ok))
  /\ SF_vars(generarPromptParaMusica_Write(TRUE))
  /\ WF_vars(\E j \in Reachable : generarMusicaConSuno_Read(j))
  /\ WF_vars(generarMusicaConSuno_Mark)
  /\ WF_vars(\E ok \in BOOLEAN : generarMusicaConSuno_Store(ok))
  /\ WF_vars(\E t \in 1 .. MaxSunoTasks, j \in Reachable : sunoCallback_Read(t, j))
  /\ WF_vars(\E ok \in BOOLEAN : sunoCallback_Write(ok))
  /\ WF_vars(procesarClips_Read)
  /\ WF_vars(procesarClips_Begin)
  /\ WF_vars(\E o \in ClipOutcomes : procesarClips_End(o))
  /\ WF_vars(enviarMusicaPorWhatsApp_Read)
  /\ WF_vars(enviarMusicaPorWhatsApp_Send)
  /\ WF_vars(enviarMusicaPorWhatsApp_Tag)
  /\ WF_vars(retryStuckMusic_Read(RetryThresholdMin))
  /\ WF_vars(retryStuckMusic_Reset)
  /\ WF_vars(connectToWhatsApp)
  /\ WF_vars(Tick(MaxMusicTicks))

\* the pipeline under fair scheduling, followed on one job
SpecLive == Init /\ [][NextLive]_vars /\ FairLive

NextStream ==
  \/ \E j \in JobIds : generarLetraParaMusica_Read(j)
  \/ \E ok \in BOOLEAN : generarLetraParaMusica_Write(ok)
  \/ \E j \in JobIds : generarPromptParaMusica_Read(j)
  \/ \E ok \in BOOLEAN : generarPromptParaMusica_Write(ok)
  \/ \E j \in JobIds : generarMusicaConSuno_Read(j)
  \/ generarMusicaConSuno_Mark
  \/ \E ok \in BOOLEAN : generarMusicaConSuno_Store(ok)
  \/ \E t \in 1 .. MaxSunoTasks, j \in JobIds : sunoCallback_Read(t, j)
  \/ \E ok \in BOOLEAN : sunoCallback_Write(ok)
  \/ \E r \in Requests, t \in Tokens, j \in JobIds : musicStream_Read(r, t, j)
  \/ \E r \in Requests : musicStream_Count(r)
  \/ \E r \in Requests, ok \in BOOLEAN : musicStream_Proxy(r, ok)

\* listeners streaming the audio of the jobs as it becomes available
SpecStream == Init /\ [][NextStream]_vars

NextProgress ==
  \/ \E t \in Tokens, j \in JobIds : musicProgress_Read(t, j)
  \/ musicProgress_Mark
  \/ musicProgress_Cancel
  \/ musicProgress_Cancelled
  \/ musicProgress_Schedule
  \/ musicProgress_Scheduled
  \/ \E l \in LeadIds : scheduleSequenceForLead_Commit(l, "MusicaLead") /\ UNCHANGED prog
  \/ prog.pc # "scheduled" /\ scheduleSequenceForLead_Hint /\ UNCHANGED prog
  \/ \E b \in 1 .. MaxBatch : processQueue_Scan("w1", b)
  \/ \E id \in TaskIds : processQueue_Deliver("w1", id)
  \/ \E id \in TaskIds : processQueue_MarkSent("w1", id)
  \/ \E id \in TaskIds : processQueue_MarkError("w1", id)
  \/ connectToWhatsApp
  \/ Tick(MaxTicks)

\* listen-progress requests against the queue
SpecProgress == Init /\ [][NextProgress]_vars

MaxTokens == 2

\* the pieces templates are made of: literal characters and placeholders for
\* the two special keys, a stored field, a field no lead has, and a name
\* every object inherits
Pieces == {Lit("h"), Lit(" "), Key("nombre"), Key("telefono"), Key("ciudad"),
           Key("falta"), Key("constructor")}

Templates == UNION {[1 .. n -> Pieces] : n \in 0 .. MaxTokens}

\* lead objects as deliverPayload builds them
RenderLeads ==
  { [exists |-> TRUE, telefono |-> << "+", "5", "2" >>,
     nombre |-> << " ", "A", "n", " ", "M" >>],
    [exists |-> TRUE, telefono |-> << "5", "-", "3" >>, nombre |-> << "L", "u" >>,
     ciudad |-> << "N", "Y" >>],
    [exists |-> TRUE, nombre |-> << " " >>],
    [exists |-> TRUE, telefono |-> << "+" >>] }

RenderCalls ==
  { [NoCall EXCEPT !.fn = "replacePlaceholders", !.lead = lead,
                   !.payload = [type |-> "texto", contenido |-> template]] :
      lead \in RenderLeads, template \in Templates }

InitRender == InitStore /\ call \in RenderCalls

NextRender == replacePlaceholders_Apply

\* replacePlaceholders applied to the templates of up to MaxTokens pieces
SpecRender == InitRender /\ [][NextRender]_vars

\* payload kinds: the six the switch names, none, and one it does not name
\* any answers of the gateway to three successive sends
ClipAnswers == [1 .. MaxAttempts -> SendResults]

ClipCalls ==
  { [NoCall EXCEPT !.fn = "sendClipMessage", !.sock = sock, !.answers = answers] :
      sock \in BOOLEAN, answers \in ClipAnswers }

InitClip == InitStore /\ call \in ClipCalls

NextClip == sendClipMessage_Apply

\* sendClipMessage applied with and without socket to every gateway
\* behaviour
SpecClip == InitClip /\ [][NextClip]_vars

Kinds == {"texto", "formulario", "audio", "clip", "imagen", "video", "", "sticker"}

DeliverLeads == RenderLeads \cup {NoDoc}

DeliverTemplates == {t \in Templates : Len(t) <= 1}

DeliverCalls ==
  { [NoCall EXCEPT !.fn = "deliverPayload", !.lead = lead,
                   !.payload = [type |-> kind, contenido |-> template],
                   !.sock = sock, !.answers = answers] :
      lead \in DeliverLeads, kind \in Kinds, template \in DeliverTemplates,
      sock \in BOOLEAN, answers \in GatewayAnswers }

InitDeliver == InitStore /\ call \in DeliverCalls

NextDeliver == deliverPayload_Apply

\* deliverPayload applied to every kind of payload, lead, socket and gateway
\* behaviour
SpecDeliver == InitDeliver /\ [][NextDeliver]_vars

(* ------------------------------------------------------------------------ *)
(* Properties of the sequence queue                                         *)
(* ------------------------------------------------------------------------ *)

Task(id) == sequenceQueue[id]
TaskAfter(id) == sequenceQueue'[id]

\* handler `id` of worker w makes its status write in this step
WritesStatus(w, id) ==
  /\ processQueue_MarkSent(w, id) \/ processQueue_MarkError(w, id)
  /\ Task(id) # NoDoc

\* C1: scheduleSequenceForLead(lead, trigger, startAt), for a definition that
\* is active and has N >= 1 messages, adds exactly N tasks, the i-th pending
\* and due at startAt + delay_i minutes, and returns N; when the definition is
\* missing, inactive or has no messages it returns 0 and writes nothing.
C1_ScheduleCreatesN ==
  [][ /\ \A l \in LeadIds, t \in Triggers :
           scheduleSequenceForLead_Commit(l, t) =>
             LET doc == LookupSecuencia(t)
                 usable == /\ doc # NoDoc
                           /\ doc.active # "false"
                           /\ Len(doc.messages) >= 1
                 added == DOMAIN sequenceQueue' \ TaskIds
             IN IF usable
                THEN /\ Cardinality(added) = Len(doc.messages)
                     /\ \A id \in TaskIds : TaskAfter(id) = Task(id)
                     /\ \A i \in 1 .. Len(doc.messages) :
                          \E id \in added :
                            /\ TaskAfter(id).leadId = l
                            /\ TaskAfter(id).trigger = t
                            /\ TaskAfter(id).idx = i - 1
                            /\ TaskAfter(id).status = "pending"
                            /\ TaskAfter(id).dueAt - now = doc.messages[i].delay * 60 * 1000
                     /\ sched'.n = Len(doc.messages)
                ELSE /\ lastReturn' = Returned("schedule", 0)
                     /\ UNCHANGED << sequenceQueue, leads >>
      /\ scheduleSequenceForLead_Hint =>
           /\ lastReturn' = Returned("schedule", sched.n)
           /\ UNCHANGED sequenceQueue
    ]_vars

\* a two-message sequence was scheduled and the call returned 2
C1_Witness ==
  /\ lastReturn = Returned("schedule", 2)
  /\ \E id \in TaskIds : Task(id) # NoDoc /\ Task(id).idx = 1 /\ Task(id).dueAt > 0

\* C2 (as stated): processQueue dispatches only pending tasks that are due,
\* and an invocation made when another has just returned, with the clock
\* unchanged and no task added since that one read the queue, dispatches
\* nothing and returns 0.
C2_RescanDispatchesNothing ==
  [][ \A w \in Workers, b \in 1 .. MaxBatch :
        processQueue_Scan(w, b) =>
          /\ \A id \in DOMAIN pq'[w].h :
               Task(id).status = "pending" /\ Task(id).dueAt <= now
          /\ (lastReturn.op = "processQueue" /\ ~lastReturn.threw /\ lastReturn.fresh)
               => (pq' = pq /\ lastReturn'.value = 0)
    ]_vars

\* C2 (amended): processQueue dispatches only pending tasks that are due,
\* and an invocation made when another has just returned fewer than its
\* batchSize, with the clock unchanged and no task added since that one read
\* the queue, dispatches nothing and returns 0.
C2_RescanAfterPartialBatch ==
  [][ \A w \in Workers, b \in 1 .. MaxBatch :
        processQueue_Scan(w, b) =>
          /\ \A id \in DOMAIN pq'[w].h :
               Task(id).status = "pending" /\ Task(id).dueAt <= now
          /\ (/\ lastReturn.op = "processQueue"
              /\ ~lastReturn.threw
              /\ lastReturn.fresh
              /\ ~lastReturn.full)
               => (pq' = pq /\ lastReturn'.value = 0)
    ]_vars

\* an invocation returned 0 although a due task exists, one already sent
C2_Witness ==
  /\ lastReturn.op = "processQueue"
  /\ lastReturn.value = 0
  /\ lastReturn.fresh
  /\ \E id \in TaskIds :
       Task(id) # NoDoc /\ Task(id).status = "sent" /\ Task(id).dueAt <= now

\* C3: cancelSequences(lead, S) selects every pending task of the lead whose
\* trigger is in S and no other task, and, with no other write to the queue
\* between its read and its commit, deletes exactly the tasks it selected,
\* all of them still pending, leaves every other task as it was and returns
\* their number; with nothing to delete it changes nothing and returns 0.
C3_CancelExactlyPendingOfLead ==
  [][ /\ \A l \in LeadIds, S \in CancelSets :
           cancelSequences_Read(l, S) =>
             LET hit == {id \in TaskIds : /\ Task(id) # NoDoc
                                          /\ Task(id).leadId = l
                                          /\ Task(id).status = "pending"
                                          /\ Task(id).trigger \in S}
             IN /\ UNCHANGED sequenceQueue
                /\ IF hit # {}
                   THEN cancel'.pc = "commit" /\ cancel'.del = hit
                   ELSE lastReturn' = Returned("cancel", 0) /\ cancel' = cancel
      /\ (cancelSequences_Commit /\ cancel.alone) =>
           /\ \A id \in cancel.del : Task(id) # NoDoc /\ Task(id).status = "pending"
           /\ \A id \in TaskIds :
                TaskAfter(id) = IF id \in cancel.del THEN NoDoc ELSE Task(id)
           /\ lastReturn' = Returned("cancel", Cardinality(cancel.del))
    ]_vars

\* a call deleted one task of a sequence whose other task, already sent, stays
C3_Witness ==
  /\ lastReturn = Returned("cancel", 1)
  /\ \E id, other \in TaskIds :
       /\ Task(id) = NoDoc
       /\ Task(other) # NoDoc
       /\ Task(other).status = "sent"

\* C4: the status of a task changes only from pending to sent or from pending
\* to error, and never again; dueAt never changes.
C4_StatusMonotone ==
  [][ \A id \in TaskIds :
        (Task(id) # NoDoc /\ TaskAfter(id) # NoDoc) =>
          /\ TaskAfter(id).dueAt = Task(id).dueAt
          /\ TaskAfter(id).status # Task(id).status =>
               (Task(id).status = "pending" /\ TaskAfter(id).status \in {"sent", "error"})
    ]_vars

\* C5: with overlapping invocations of processQueue each task is delivered at
\* most once and its status is written by at most one invocation.
C5_DeliveredAtMostOnce ==
  [][ \A id \in TaskIds :
        /\ gateway'[id] <= 1
        /\ \A w \in Workers : WritesStatus(w, id) => Task(id).status = "pending"
    ]_vars

\* C6: the failure of one task of a batch changes no other task of the batch
\* and never makes processQueue itself fail.
C6_FailureIsolated ==
  [][ /\ \A w \in Workers, id \in TaskIds :
           (processQueue_MarkSent(w, id) \/ processQueue_MarkError(w, id)) =>
             \A other \in TaskIds \ {id} : TaskAfter(other) = Task(other)
      /\ ~lastReturn'.threw
    ]_vars

\* C7: the status a handler of processQueue writes is sent exactly when its
\* delivery succeeded, and error, with the failure's message, exactly when it
\* failed.
C7_StatusReflectsDelivery ==
  [][ \A w \in Workers, id \in TaskIds :
        WritesStatus(w, id) =>
          IF pq[w].h[id].delivered
          THEN TaskAfter(id).status = "sent" /\ TaskAfter(id).error = Task(id).error
          ELSE /\ TaskAfter(id).status = "error"
               /\ TaskAfter(id).error = pq[w].h[id].msg
               /\ pq[w].h[id].msg # ""
    ]_vars

\* one invocation left a task sent and another in error with the gateway's message
C7_Witness ==
  /\ lastReturn.op = "processQueue"
  /\ \E id, other \in TaskIds :
       /\ Task(id) # NoDoc /\ Task(id).status = "sent" /\ gateway[id] = 1
       /\ Task(other) # NoDoc /\ Task(other).status = "error"
       /\ Task(other).error = "Timed Out"

(* ------------------------------------------------------------------------ *)
(* Properties of the production pipeline                                    *)
(* ------------------------------------------------------------------------ *)

ErrorStatuses == {"Error musica", "Error clip", "Error watermark", "Error upload clip"}

\* the stage advances of a job; the clip stage passes through 'Generando clip'
Advances ==
  { << "Sin letra", "Sin prompt" >>,
    << "Sin prompt", "Sin musica" >>,
    << "Sin musica", "Procesando musica" >>,
    << "Procesando musica", "Audio listo" >>,
    << "Audio listo", "Generando clip" >>,
    << "Generando clip", "Enviar musica" >>,
    << "Enviar musica", "Enviada" >> }

\* C8: a job that starts in 'Sin letra' moves to 'Enviada' by the stage
\* advances lyrics, prompt, generation start, callback, clip, delivery, in
\* that order: unless a provider fails (the job takes an error status, and
\* is then outside this property), every change of its status is the next
\* advance, or the recovery move from 'Procesando musica' back to
\* 'Sin musica'; no stage is skipped and none is entered again.
C8_StagesInOrder ==
  [][ \A j \in JobIds :
        (musica'[j].status # musica[j].status /\ musica[j].status \notin ErrorStatuses) =>
          \/ << musica[j].status, musica'[j].status >> \in Advances
          \/ << musica[j].status, musica'[j].status >> = << "Procesando musica", "Sin musica" >>
          \/ musica'[j].status \in ErrorStatuses
    ]_vars

\* C9: retryStuckMusic(threshold) selects every job in 'Procesando musica'
\* whose generatedAt is older than the threshold and none that is newer,
\* resets each selected job to 'Sin musica' with taskId and errorMsg cleared,
\* and changes no other job.
C9_RetryResetsExactlyStuck ==
  [][ /\ retryStuckMusic_Read(RetryThresholdMin) =>
           /\ UNCHANGED musica
           /\ \A j \in JobIds :
                IF musica[j].status = "Procesando musica"
                THEN /\ now - musica[j].generatedAt > 10 * 60 * 1000
                          => j \in stage'.retry.todo
                     /\ now - musica[j].generatedAt < 10 * 60 * 1000
                          => j \notin stage'.retry.todo
                ELSE j \notin stage'.retry.todo
      /\ retryStuckMusic_Reset =>
           \E j \in stage.retry.todo :
             /\ musica'[j].status = "Sin musica"
             /\ musica'[j].taskId = 0
             /\ musica'[j].errorMsg = ""
             /\ musica'[j].generatedAt = musica[j].generatedAt
             /\ \A k \in JobIds \ {j} : musica'[k] = musica[k]
             /\ stage'.retry.todo = stage.retry.todo \ {j}
             /\ stage'.retry.pc = IF stage'.retry.todo = {} THEN "idle" ELSE "next"
    ]_vars

\* the sweep reset a job older than the threshold and left a newer one,
\* still in 'Procesando musica', alone
C9_Witness ==
  /\ stage.retry.pc = "idle"
  /\ \E j, k \in JobIds :
       /\ musica[j].status = "Sin musica"
       /\ musica[j].generatedAt >= 0
       /\ now - musica[j].generatedAt > 10 * 60 * 1000
       /\ musica[j].taskId = 0
       /\ musica[k].status = "Procesando musica"
       /\ musica[k].taskId # 0
       /\ now - musica[k].generatedAt < 10 * 60 * 1000

\* C10: however often POST /api/music/progress is invoked for a job's token,
\* the 'LeadSeguimiento' sequence is scheduled for the job's lead once: the
\* lead never has more 'LeadSeguimiento' tasks than the sequence has messages.
C10_ProgressFiresOnce ==
  \A j \in JobIds :
    Cardinality({id \in TaskIds : /\ Task(id) # NoDoc
                                  /\ Task(id).trigger = "LeadSeguimiento"
                                  /\ Task(id).leadId = musica[j].leadId})
      <= Len(Secuencias.LeadSeguimiento.messages)

\* the stage names of a production job
StageNames ==
  {"Sin letra", "Sin prompt", "Sin musica", "Procesando musica", "Audio listo",
   "Enviar musica", "Enviada"}

\* C11 as stated: in every reachable state the status of each production job
\* is one of the stage names 'Sin letra', 'Sin prompt', 'Sin musica',
\* 'Procesando musica', 'Audio listo', 'Enviar musica', 'Enviada', or an error
\* status; no operation writes another value.
C11_StatusIsStageName ==
  \A j \in JobIds : musica[j].status \in StageNames \cup ErrorStatuses

\* C11, amended: the status of each production job is always a stage name,
\* an error status, the marker 'Generando clip' the clip stage writes while
\* it works, or one of the two statuses the manual send endpoints write,
\* 'Enviada completa' and 'Enviado por boton'; no operation writes another
\* value.
C11_StatusIsKnownName ==
  \A j \in JobIds :
    musica[j].status \in StageNames \cup ErrorStatuses
                         \cup {"Generando clip", "Enviada completa", "Enviado por boton"}

\* a job went through the clip stage and was then sent by the send-clip
\* endpoint
C11_Witness ==
  \E j \in JobIds : musica[j].status = "Enviado por boton" /\ musica[j].clipUrl

\* a job's taskId is written by the generation-start step and cleared by
\* the recovery sweep, and by nothing else
TaskIdWriters ==
  \A j \in JobIds :
    musica'[j].taskId # musica[j].taskId =>
      \/ /\ generarMusicaConSuno_Store(TRUE)
         /\ j = stage.suno.job
         /\ musica'[j].taskId = sunoTasks'
      \/ /\ retryStuckMusic_Reset
         /\ j = Min(stage.retry.todo)
         /\ musica'[j].taskId = 0
         /\ musica'[j].status = "Sin musica"

\* C12: a job's taskId is written only by the generation-start step, the
\* recovery sweep clears it when it returns the job to 'Sin musica', and a
\* task id the sweep cleared is never effective again: no step of a
\* generation callback that carries a cleared task id changes a job.
C12_ClearedTaskIdIneffective ==
  [][ /\ TaskIdWriters
      /\ \A ok \in BOOLEAN :
           (sunoCallback_Write(ok) /\ hist.cbTask \in hist.cleared) => UNCHANGED musica
    ]_vars

\* the statuses no stage function takes a job from
TerminalStatuses == {"Enviada"} \cup ErrorStatuses

\* C13: once the status of a job is 'Enviada' or an error status, no stage
\* function, no recovery sweep and no generation callback changes it again.
C13_TerminalStaysTerminal ==
  [][ \A j \in JobIds :
        musica[j].status \in TerminalStatuses => musica'[j].status = musica[j].status
    ]_vars

\* job j is marked in error, with a message
MarkedInError(j) ==
  /\ musica'[j].status \in ErrorStatuses
  /\ musica'[j].errorMsg # ""

\* C14: a provider-call failure at any stage (lyrics, prompt, generation
\* start, clip production, delivery) sets the job to an error status and
\* records the failure's message on the job.
C14_FailureMarksJob ==
  [][ /\ generarLetraParaMusica_Write(FALSE) => MarkedInError(stage.letra.job)
      /\ generarPromptParaMusica_Write(FALSE) => MarkedInError(stage.prompt.job)
      /\ generarMusicaConSuno_Store(FALSE) => MarkedInError(stage.suno.job)
      /\ \A o \in ClipOutcomes \ {"ok"} :
           procesarClips_End(o) => MarkedInError(stage.clips.job)
      /\ (enviarMusicaPorWhatsApp_Send /\ stage'.enviar.pc # "tag") =>
           MarkedInError(Min(stage.enviar.todo))
    ]_vars

\* the sweep p is through with job j and goes on with the rest of its
\* snapshot, and no other job was written
GoesOn(p, pAfter, j) ==
  /\ pAfter.todo = p.todo \ {j}
  /\ pAfter.todo # {} => pAfter.pc = "next"
  /\ \A k \in JobIds \ {j} : musica'[k] = musica[k]

\* C15: in a sweep over several jobs (procesarClips over 'Audio listo',
\* enviarMusicaPorWhatsApp over 'Enviar musica') a failure on one job never
\* keeps the remaining jobs of the snapshot from being processed in the same
\* sweep, and no job outside the snapshot is modified.
C15_SweepFailureIsolated ==
  [][ /\ \A o \in ClipOutcomes :
           procesarClips_End(o) =>
             /\ stage.clips.job \in stage.clips.todo
             /\ GoesOn(stage.clips, stage'.clips, stage.clips.job)
      /\ (enviarMusicaPorWhatsApp_Send /\ stage'.enviar.pc # "tag") =>
           GoesOn(stage.enviar, stage'.enviar, Min(stage.enviar.todo))
    ]_vars

ServedWithinLimit(j) == hist.served[j] <= MaxPlaysDefault

\* C17: for every listen token the audio is served at most maxPlays times
\* (2 by default) and listen.playCount never exceeds maxPlays, also when
\* several stream requests for the token are handled at the same time.
C17_PlaysCapped ==
  \A j \in JobIds :
    /\ musica[j].playCount <= MaxPlaysDefault
    /\ ServedWithinLimit(j)

(* ------------------------------------------------------------------------ *)
(* Progress of the production pipeline                                      *)
(* ------------------------------------------------------------------------ *)

\* job j waits for a callback that lies beyond the callbacks followed
BeyondCallbacks(j) ==
  /\ callbacks = MaxCallbacks
  /\ musica[j].status = "Procesando musica"

\* C18: under fair scheduling of the stage functions, the generation
\* callback and the recovery sweep, every job created in 'Sin letra' that
\* the stage functions pick up eventually reaches a terminal status
\* ('Enviada' or an error status); none stays in a non-terminal status for
\* ever.  (A job left waiting for a callback past the last one followed is
\* not counted against the property.)
C18_EveryJobTerminates ==
  \A j \in JobIds :
    (j \in Reachable) =>
      <>(musica[j].status \in TerminalStatuses \/ BeyondCallbacks(j))

(* ------------------------------------------------------------------------ *)
(* Properties of the listen-progress request                                *)
(* ------------------------------------------------------------------------ *)

\* the progress request in flight ends with this step
ProgressCompletes == prog.pc # "idle" /\ prog'.pc = "idle"

\* the pending tasks of a lead for a trigger, after the step
PendingAfter(leadId, trigger) ==
  {id \in DOMAIN sequenceQueue' :
     /\ TaskAfter(id) # NoDoc
     /\ TaskAfter(id).leadId = leadId
     /\ TaskAfter(id).trigger = trigger
     /\ TaskAfter(id).status = "pending"}

\* the tasks of 'LeadSeguimiento' the step adds for the lead of the request
FollowUpAdded ==
  {id \in DOMAIN sequenceQueue' \ TaskIds :
     /\ TaskAfter(id).leadId = prog.leadId
     /\ TaskAfter(id).trigger = "LeadSeguimiento"
     /\ TaskAfter(id).status = "pending"}

\* C19 as stated: when POST /api/music/progress completes for a job with a
\* leadId, that lead has no pending 'MusicaLead' task.
C19_NoMusicaLeadLeft ==
  [][ ProgressCompletes => PendingAfter(prog.leadId, "MusicaLead") = {} ]_vars

\* C19, amended: when the request schedules 'LeadSeguimiento', every
\* 'MusicaLead' task its cancellation found pending for the lead has already
\* been deleted, and the step adds the tasks of the sequence (as many as it
\* has messages); when the request completes, those 'MusicaLead' tasks are
\* still gone.  A 'MusicaLead' task scheduled for the lead while the request
\* is handled is not covered.
C19_CancelledThenScheduled ==
  [][ /\ musicProgress_Schedule =>
           /\ \A id \in prog.seen : Task(id) = NoDoc
           /\ Cardinality(FollowUpAdded) = Len(SeqMessages("LeadSeguimiento"))
      /\ musicProgress_Cancel =>
           prog'.seen = {id \in TaskIds : /\ Task(id) # NoDoc
                                          /\ Task(id).leadId = prog.leadId
                                          /\ Task(id).trigger = "MusicaLead"
                                          /\ Task(id).status = "pending"}
      /\ ProgressCompletes => \A id \in prog.seen : TaskAfter(id) = NoDoc
    ]_vars

\* a request has completed after cancelling a 'MusicaLead' task and
\* scheduling 'LeadSeguimiento' for the same lead
C19_Witness ==
  /\ prog.pc = "idle"
  /\ lastReturn.op = "schedule"
  /\ \E id, f \in TaskIds :
       /\ id < f
       /\ Task(id) = NoDoc
       /\ Task(f) # NoDoc
       /\ Task(f).trigger = "LeadSeguimiento"

\* a scheduleSequenceForLead or cancelSequences call starts or takes effect
\* in this step
SchedulerInvoked ==
  \/ sched' # sched
  \/ cancel' # cancel
  \/ sequenceQueue' # sequenceQueue

\* C20: whenever enviarMusicaPorWhatsApp moves a job to 'Enviada', it goes
\* on to tag the job's lead and to invoke the sequence scheduler for that
\* lead (scheduling a follow-up sequence or cancelling the sales sequence)
\* before it is through with the job.
C20_DeliveryInvokesScheduler ==
  [][ enviarMusicaPorWhatsApp_Tag =>
        /\ "CancionEnviada" \in leads'[musica[stage.enviar.job].leadId].etiquetas
        /\ SchedulerInvoked
    ]_vars

(* ------------------------------------------------------------------------ *)
(* Properties of delivery                                                    *)
(* ------------------------------------------------------------------------ *)

LeadFailures == {"Lead no existe", "Lead sin telefono"}

\* the failure deliverPayload raises for this lead before it looks at the payload
LeadFailure(lead) ==
  IF lead = NoDoc THEN "Lead no existe"
  ELSE IF \A i \in DOMAIN LeadField(lead, "telefono") :
            ~IsDigit(LeadField(lead, "telefono")[i])
  THEN "Lead sin telefono"
  ELSE ""

\* C21: deliverPayload fails without sending any message when the lead record
\* does not exist or the lead's phone number has no digit, and the handler of
\* processQueue then marks that task error with the corresponding message
\* ('Lead no existe', 'Lead sin telefono').
C21_LeadFailureMarksError ==
  [][ \A w \in Workers, id \in TaskIds :
        /\ (processQueue_Deliver(w, id) /\ LeadFailure(leads[pq[w].h[id].leadId]) # "") =>
             /\ gateway'[id] = gateway[id]
             /\ pq'[w].h[id].pc = "markError"
             /\ pq'[w].h[id].msg = LeadFailure(leads[pq[w].h[id].leadId])
        /\ (processQueue_MarkError(w, id) /\ pq[w].h[id].msg \in LeadFailures) =>
             /\ TaskAfter(id).status = "error"
             /\ TaskAfter(id).error = pq[w].h[id].msg
             /\ gateway[id] = 0
    ]_vars

\* one task failed on a missing lead record and another on a lead without
\* phone number, and nothing was sent for either
C21_Witness ==
  \E id, other \in TaskIds :
    /\ Task(id) # NoDoc /\ Task(id).status = "error"
    /\ Task(id).error = "Lead no existe" /\ gateway[id] = 0
    /\ Task(other) # NoDoc /\ Task(other).status = "error"
    /\ Task(other).error = "Lead sin telefono" /\ gateway[other] = 0

\* a deliverPayload call that settled, for a lead that exists and has a phone
Delivered == call.fn = "deliverPayload" /\ call.done /\ LeadFailure(call.lead) = ""

\* the gateway call the claim names for a payload kind
CallFor(kind, sock) ==
  CASE kind \in {"texto", "formulario"} -> "text"
    [] kind \in {"audio", "clip"} -> "audio"
    [] kind \in {"imagen", "video"} -> IF sock THEN "media" ELSE "text"
    [] OTHER -> "text"

\* the choice C22 describes was made: nothing is sent for a template that
\* renders blank, otherwise the call is the one the payload kind names, and a
\* kind the switch does not name gives what texto gives
ChosenByKind ==
  /\ call.out.via = IF Trim(replacePlaceholders(call.payload.contenido, call.lead)) = << >>
                    THEN ""
                    ELSE CallFor(call.payload.type, call.sock)
  /\ call.payload.type \notin {"texto", "formulario", "audio", "clip", "imagen", "video"} =>
       call.out = deliverPayload(call.lead, [call.payload EXCEPT !.type = "texto"],
                                 call.sock, call.answers)
  /\ call.out.via = "" => call.out.tries = 0

Stored(lead, key) == IF key \in DOMAIN lead THEN lead[key] ELSE << >>

\* t is the first whitespace-delimited token of str (empty when there is none)
IsFirstToken(t, str) ==
  \E i, j \in 0 .. Len(str) :
    /\ i <= j /\ t = SubSeq(str, i + 1, j)
    /\ \A k \in 1 .. i : IsSpace(str[k])
    /\ \A k \in (i + 1) .. j : ~IsSpace(str[k])
    /\ j = Len(str) \/ IsSpace(str[j + 1])
    /\ t = << >> => j = Len(str)

\* what C23 says a piece of a template renders to
RendersTo(piece, lead, out) ==
  IF piece.key = "" THEN out = << piece.lit >>
  ELSE IF piece.key = "nombre" THEN IsFirstToken(out, Stored(lead, "nombre"))
  ELSE IF piece.key = "telefono"
  THEN out = SelectSeq(Stored(lead, "telefono"), IsDigit)
  ELSE out = Stored(lead, piece.key)

\* out is the template rendered piece by piece
RECURSIVE Rendered(_, _, _)
Rendered(template, lead, out) ==
  IF template = << >> THEN out = << >>
  ELSE \E n \in 0 .. Len(out) :
         /\ RendersTo(Head(template), lead, SubSeq(out, 1, n))
         /\ Rendered(Tail(template), lead, SubSeq(out, n + 1, Len(out)))

\* C23: replacePlaceholders(template, lead) replaces every {{key}} token:
\* {{nombre}} by the first whitespace-delimited token of the lead's name
\* (empty if absent), {{telefono}} by the phone's digits only, any other key
\* by the lead field's value or the empty string when missing; it never
\* throws, and an empty or missing template renders to the empty string.
C23_RendersEveryToken ==
  (call.fn = "replacePlaceholders" /\ call.done) =>
    Rendered(call.payload.contenido, call.lead, call.out)

\* the same for templates that name no inherited property
RendersOwnFields ==
  (/\ call.fn = "replacePlaceholders" /\ call.done
   /\ \A i \in DOMAIN call.payload.contenido :
        call.payload.contenido[i].key \notin ObjectPrototype) =>
    Rendered(call.payload.contenido, call.lead, call.out)

(* ------------------------------------------------------------------------ *)
(* Properties of scheduling, cancelling and dispatching together            *)
(* ------------------------------------------------------------------------ *)

\* the task documents that exist
Existing == {id \in TaskIds : Task(id) # NoDoc}
ExistingAfter == {id \in DOMAIN sequenceQueue' : TaskAfter(id) # NoDoc}

\* `ids` are, in the next state, the tasks of one call scheduling `trigger`
\* for `leadId`: one pending task per message of the definition
WholeSequence(ids, leadId, trigger) ==
  /\ Cardinality(ids) = Len(SeqMessages(trigger))
  /\ \A k \in 1 .. Len(SeqMessages(trigger)) :
       \E id \in ids : /\ TaskAfter(id).leadId = leadId
                       /\ TaskAfter(id).trigger = trigger
                       /\ TaskAfter(id).idx = k - 1
                       /\ TaskAfter(id).status = "pending"

C25_CallbackGuarded ==
  [][ \A ok \in BOOLEAN :
        (sunoCallback_Write(ok) /\ musica' # musica) =>
          /\ musica[stage.callback.job].status = "Procesando musica"
          /\ musica[stage.callback.job].taskId = hist.cbTask
          /\ musica'[stage.callback.job].status =
               IF ok THEN "Audio listo" ELSE "Error musica"
    ]_vars

\* jobs are numbered in the order they were created: the oldest job of a
\* stage is the one with the smallest number
Oldest(st) == Min(WithStatus(st))

\* C26: each tick-driven stage function other than clip production
\* (generarLetraParaMusica, generarPromptParaMusica, generarMusicaConSuno,
\* enviarMusicaPorWhatsApp) advances at most one job per invocation, and the
\* job it advances is the oldest job in its source stage.
C26_OneOldestJobPerInvocation ==
  [][ /\ \A j \in JobIds :
           /\ generarLetraParaMusica_Read(j) => j = Oldest("Sin letra")
           /\ generarPromptParaMusica_Read(j) => j = Oldest("Sin prompt")
           /\ generarMusicaConSuno_Read(j) => j = Oldest("Sin musica")
      /\ (enviarMusicaPorWhatsApp_Send /\ musica' # musica) => hist.enviados = {}
    ]_vars

\* the delivery stage by itself: more than one job per invocation
EnviarOneJobPerInvocation ==
  [][ (enviarMusicaPorWhatsApp_Send /\ musica' # musica) => hist.enviados = {} ]_vars

\* the tasks this step removes
Removed == Existing \ ExistingAfter

\* C27: when cancelSequences(leadId, S) interleaves with
\* scheduleSequenceForLead or with another cancelSequences, no task whose
\* trigger is outside S is deleted, and no task is deleted or counted by more
\* than one call: each call returns the number of tasks it removed, so the
\* counts of concurrent calls sum to the number of tasks actually removed.
C27_CancelCountsRemoved ==
  [][ /\ \A l \in LeadIds, S \in CancelSets :
           /\ cancelSequences_Read(l, S) =>
                \A id \in cancel'.del \ cancel.del : Task(id).trigger \in S
           /\ rivalCancelSequences_Read(l, S) =>
                \A id \in rival'.del \ rival.del : Task(id).trigger \in S
      /\ cancelSequences_Commit =>
           /\ Removed \subseteq cancel.del
           /\ lastReturn' = Returned("cancel", Cardinality(Removed))
      /\ rivalCancelSequences_Commit =>
           /\ Removed \subseteq rival.del
           /\ lastReturn' = Returned("cancel", Cardinality(Removed))
    ]_vars

\* the part of C27 about triggers and about what a call deletes
CancelDeletesOwnTriggers ==
  [][ /\ \A l \in LeadIds, S \in CancelSets :
           /\ cancelSequences_Read(l, S) =>
                \A id \in cancel'.del \ cancel.del : Task(id).trigger \in S
           /\ rivalCancelSequences_Read(l, S) =>
                \A id \in rival'.del \ rival.del : Task(id).trigger \in S
      /\ cancelSequences_Commit => Removed \subseteq cancel.del
      /\ rivalCancelSequences_Commit => Removed \subseteq rival.del
    ]_vars

\* C28: a task whose status is sent or error is never removed from the task
\* collection, even when cancelSequences read it while it was pending and
\* commits its batch after the dispatcher marked it.
C28_ProcessedTaskKept ==
  [][ \A id \in TaskIds :
        (Task(id) # NoDoc /\ Task(id).status \in {"sent", "error"}) =>
          TaskAfter(id) # NoDoc
    ]_vars

\* C29: every task scheduleSequenceForLead creates carries a shard in 0..9
\* that never changes, processQueue called with shard s dispatches only tasks
\* whose shard is s, and so two concurrent processQueue workers given
\* different shards never dispatch the same task.
C29_ShardsPartitionWork ==
  [][ /\ \A id \in ExistingAfter :
           /\ TaskAfter(id).shard \in 0 .. 9
           /\ id \in Existing => TaskAfter(id).shard = Task(id).shard
      /\ \A w \in Workers, b \in 1 .. MaxBatch :
           processQueue_ScanShard(w, b, WorkerShard[w]) =>
             /\ pq'[w].pc = "running" => pq'[w].shard = WorkerShard[w]
             /\ \A id \in DOMAIN pq'[w].h : Task(id).shard = WorkerShard[w]
      /\ \A w \in Workers, id \in TaskIds :
           processQueue_Deliver(w, id) =>
             /\ pq[w].shard = WorkerShard[w]
             /\ Task(id) # NoDoc => Task(id).shard = pq[w].shard
      /\ \A w, v \in Workers :
           (pq'[w].shard # pq'[v].shard) => DOMAIN pq'[w].h \cap DOMAIN pq'[v].h = {}
    ]_vars

\* the two workers are in flight together, each about to deliver a task of
\* its own shard
C29_Witness ==
  /\ pq["w1"].pc = "running" /\ pq["w2"].pc = "running"
  /\ \E id, other \in TaskIds :
       /\ id # other
       /\ id \in DOMAIN pq["w1"].h /\ pq["w1"].h[id].pc = "deliver"
       /\ other \in DOMAIN pq["w2"].h /\ pq["w2"].h[other].pc = "deliver"
       /\ Task(id).shard = 0 /\ Task(other).shard = 9

\* the pending tasks that are due
DuePending ==
  {id \in Existing : Task(id).status = "pending" /\ Task(id).dueAt <= now}

\* C30: when more than batchSize pending tasks are due, processQueue
\* dispatches exactly batchSize of them, those with the smallest dueAt: no
\* due pending task is left out of a cycle in which a task with a later
\* dueAt is dispatched.
C30_EarliestDueFirst ==
  [][ \A w \in Workers, b \in 1 .. MaxBatch :
        (processQueue_Scan(w, b) /\ Cardinality(DuePending) > b) =>
          /\ pq'[w].pc = "running"
          /\ DOMAIN pq'[w].h \subseteq DuePending
          /\ Cardinality(DOMAIN pq'[w].h) = b
          /\ \A id \in DOMAIN pq'[w].h : pq'[w].h[id].pc = "deliver"
          /\ \A left \in DuePending \ DOMAIN pq'[w].h, id \in DOMAIN pq'[w].h :
               Task(id).dueAt <= Task(left).dueAt
    ]_vars

\* an invocation with batchSize 1 took the earlier of two due pending tasks
\* and left the later one
C30_Witness ==
  /\ pq["w1"].pc = "running" /\ pq["w1"].fresh
  /\ \E id, left \in DuePending :
       /\ DOMAIN pq["w1"].h = {id}
       /\ pq["w1"].h[id].pc = "deliver"
       /\ Task(id).dueAt < Task(left).dueAt

\* ---------------------------------------------------------------------
\* generation tasks per pass

SunoSlots == {"suno", "suno2"}

\* the step in which the provider started a task for the invocation's job
\* and the task id is stored
StoresTask(slot) ==
  /\ stage[slot].pc = "launch"
  /\ sunoTasks' = sunoTasks + 1
  /\ stage'[slot] = StageIdle

\* C31: per job and per pass through 'Sin musica' the provider starts at
\* most one task and the taskId is written at most once: an invocation that
\* stores a task id finds no task id on the job (retryStuckMusic deletes
\* the field when it opens a new pass), also when invocations overlap or
\* the recovery sweep runs between the status write and the taskId write.
C31_OneTaskPerPass ==
  [][ \A slot \in SunoSlots :
        StoresTask(slot) => musica[stage[slot].job].taskId = 0 ]_vars

\* no recovery sweep involved: two invocations are at the provider call
\* for the same job
C31_OverlapSameJob ==
  ~ /\ stage["suno"].pc = "launch"
    /\ stage["suno2"].pc = "launch"
    /\ stage["suno"].job = stage["suno2"].job

\* ---------------------------------------------------------------------
\* the threshold of the listen-progress report

\* C33: POST /api/music/progress cancels 'MusicaLead' and schedules
\* 'LeadSeguimiento' only when the reported playback fraction is at or
\* above the 50% threshold; a report below it cancels and schedules
\* nothing.
C33_SwitchOnlyFromHalf ==
  [][ (musicProgress_Cancel \/ musicProgress_Schedule) => prog.pct >= HalfPct ]_vars

\* ---------------------------------------------------------------------
\* the retry loop of sendClipMessage

ClipSettled == call.fn = "sendClipMessage" /\ call.done

\* C32: sendClipMessage ends after at most three send attempts: it returns
\* on the first attempt that succeeds, makes a further attempt only after
\* one that timed out, throws a failure that is no timeout at once, and
\* throws the timeout of the third attempt.
C32_ClipAtMostThreeAttempts ==
  ClipSettled /\ call.sock =>
    LET r == call.out
        a == call.answers
    IN /\ r.tries \in 1 .. MaxAttempts
       /\ \A i \in 1 .. (r.tries - 1) : a[i] = "Timed Out"
       /\ r.ok <=> a[r.tries] = "ok"
       /\ r.ok => r.sends = 1
       /\ ~r.ok => /\ r.msg = a[r.tries] /\ r.sends = 0
                   /\ a[r.tries] = "Timed Out" => r.tries = MaxAttempts

\* the third attempt timed out like the two before it and its failure was
\* thrown
C32_Witness ==
  /\ ClipSettled /\ call.sock
  /\ ~call.out.ok /\ call.out.msg = "Timed Out"
  /\ call.out.tries = MaxAttempts

\* ---------------------------------------------------------------------
\* the listen link

\* the characters of a listen token
TokenText(token) ==
  CASE token = "t1" -> << "t", "1" >>
    [] token = "t2" -> << "t", "2" >>
    [] OTHER -> << "t", "9" >>

\* server.js line 594: the :token parameter of the route /escuchar/:token,
\* the part of the link after the last '/'
EscucharParam(listenUrl) == Tail(listenUrl)

\* server.js line 596: where('listen.token', '==', token)
escuchar_Find(param) == {j \in JobIds : TokenText(musica[j].token) = param}

\* C34: for every job that enviarMusicaPorWhatsApp moved to 'Enviada', the
\* link sent to the lead carries the job's listen token: GET
\* /escuchar/:token with the value in the link finds that same job.
C34_LinkCarriesToken ==
  \A j \in JobIds :
    musica[j].listenUrl # << >> =>
      escuchar_Find(EscucharParam(musica[j].listenUrl)) = {j}

\* ---------------------------------------------------------------------
\* cancellation against a dispatch under way

\* handler `id` of worker w sends its message to the gateway in this step
SendsToLead(w, id) ==
  /\ processQueue_Deliver(w, id)
  /\ gateway'[id] > gateway[id]

\* C35: once cancelSequences(leadId, S) has returned, no task of a trigger
\* in S scheduled for the lead before the call is delivered to the lead,
\* also when a processQueue invocation had read its batch before the cancel
\* ran: a task is sent to the gateway only while its document exists (only
\* cancelSequences deletes task documents, and its batch is committed when
\* it returns).
C35_NoDeliveryAfterCancel ==
  [][ \A id \in TaskIds : SendsToLead("w1", id) => Task(id) # NoDoc ]_vars

\* ---------------------------------------------------------------------
\* step order within a batch

\* tasks of the batch of worker w that belong to the same lead and trigger
\* as `id`, come earlier in the sequence, and have not been handed to
\* deliverPayload yet
EarlierWaiting(w, id) ==
  {e \in DOMAIN pq[w].h :
     /\ Task(e) # NoDoc /\ Task(id) # NoDoc
     /\ Task(e).leadId = Task(id).leadId
     /\ Task(e).trigger = Task(id).trigger
     /\ Task(e).idx < Task(id).idx
     /\ pq[w].h[e].pc = "deliver"}

\* C36: the messages of one sequence reach a lead in step order: when two
\* tasks of the same lead and trigger are due in one processQueue batch,
\* the task with the smaller idx is sent to the gateway before the one with
\* the larger idx.
C36_StepOrderInBatch ==
  [][ \A id \in TaskIds : SendsToLead("w1", id) => EarlierWaiting("w1", id) = {} ]_vars

\* ---------------------------------------------------------------------
\* the messages of a job's delivery

\* the sweep in `slot` has sent the lyrics and the link of its next job and
\* marks it 'Enviada' in this step
SendsBoth(slot) ==
  /\ stage[slot].pc = "next"
  /\ stage'[slot].pc = "tag"

\* C37: over the whole life of a job the lyrics message and the link
\* message are each sent at most once, also when two
\* enviarMusicaPorWhatsApp sweeps overlap, when the second send fails after
\* the first succeeded, and when a generation callback arrives again: a
\* sweep that sends both messages of a job finds no link stored on it
\* (listenUrl is written with 'Enviada', after both were sent).
C37_MessagesSentOnce ==
  [][ \A slot \in EnviarSlots :
        SendsBoth(slot) => musica[stage'[slot].job].listenUrl = << >> ]_vars

\* the same for a single sweep at a time: the job came back to 'Enviar
\* musica' through a repeated generation callback
C37_MessagesSentOnce_OneSweep ==
  [][ SendsBoth("enviar") => musica[stage'["enviar"].job].listenUrl = << >> ]_vars

\* ---------------------------------------------------------------------
\* the sweep of a processSequences cycle

\* C38: in every processSequences cycle the pending 'NuevoLead' tasks of
\* every lead tagged 'MusicaLead' are cancelled before the queue is
\* dispatched: no 'NuevoLead' task is delivered in a cycle to a lead that
\* carried the tag when the cycle started (prog.snap), also when the lead's
\* nuevoLeadCancelled flag was set in an earlier cycle and 'NuevoLead' was
\* scheduled again later.
C38_NoNuevoLeadToFormLeads ==
  [][ \A id \in TaskIds :
        ~ /\ prog.pc = "dispatched"
          /\ SendsToLead("w1", id)
          /\ pq["w1"].h[id].leadId \in prog.snap
          /\ Task(id) # NoDoc
          /\ Task(id).trigger = "NuevoLead" ]_vars

\* the case of the flag alone: a sweep that finds every tagged lead flagged
\* goes on to the dispatch only if none of them has a pending 'NuevoLead'
\* task
C38_FlaggedLeadsHaveNoTasks ==
  [][ (processSequences_Sweep /\ prog'.pc = "dispatch") =>
        \A l \in prog'.snap : ToDelete(PendingOfLead(l), {"NuevoLead"}) = {} ]_vars

\* ---------------------------------------------------------------------
\* scheduling by inbound messages

\* the tasks of `trigger` that exist for the lead
TasksOf(leadId, trigger) ==
  {id \in Existing : Task(id).leadId = leadId /\ Task(id).trigger = trigger}

\* C39: inbound messages schedule the sequence of a trigger for a lead at
\* most once: once a first inbound message has created the lead (or added
\* the tag) and scheduled the sequence, no later or concurrently handled
\* inbound message with the same trigger creates further tasks for the
\* lead.
C39_InboundSchedulesOnce ==
  [][ \A m \in Inbound :
        (inbound_Schedule(m) /\ sched'.pc = "committed") =>
          TasksOf(prog.inbound[m].leadId, prog.inbound[m].trigger) = {} ]_vars

\* handled one after the other, the second message of a trigger schedules
\* nothing: a handler that read the tag on the lead creates no task
C39_TaggedLeadNotScheduled ==
  [][ \A m \in Inbound :
        (prog.inbound[m].hadTag /\ prog.inbound[m].pc # "idle") =>
           prog'.inbound[m].pc \notin {"schedule", "hint"} ]_vars

====
